---- MODULE Spec2Model ----
(***************************************************************************)
(* Model of the VMAD ("Virtual Machine Adapter") subrecord codec of        *)
(* Mopy/bash/game/skyrim/records.py: MelVmad and its components            *)
(* (_AVmadComponent, _AFixedContainer, _AVariableContainer, ObjectRef,     *)
(* the fragment and handler classes, Script, Property, Alias).             *)
(*                                                                         *)
(* Bytes are integers 0..255, a stream is a sequence of bytes and the      *)
(* cursor is a 0-based offset into it.  Python objects with __slots__ are  *)
(* records; an attribute that was never assigned is a field the record     *)
(* does not have.  Exceptions are the "err" field of the threaded state.   *)
(***************************************************************************)
EXTENDS Integers, Sequences, FiniteSets, TLC

\* ------------------------------------------------------------------------
\* Bounds of the model (not program constants)
\* ------------------------------------------------------------------------
MaxScripts == 1
MaxProps == 2
MaxArray == 1
MaxFrags == 1
MaxAliases == 1
MaxCycles == 1

\* The most velocities a record's water_velocities list holds.
MaxVelocities == 2

\* The most bytes the payload of a DEBR DATA subrecord holds.
MaxDebr == 4

\* The most patchers the patcher dialog lists.
MaxPatchers == 3

\* The most safeSave calls and retry prompts that are counted.
MaxSaves == 4

\* ------------------------------------------------------------------------
\* Python values
\* ------------------------------------------------------------------------
\* None, and the dynamically typed values a property payload can hold: the
\* tag "t" is the Python type of the value.
None == [t |-> "NoneType"]
ObjectRef(aid, fid) == [cls |-> "ObjectRef", aid |-> aid, fid |-> fid]
PyInt(v) == [t |-> "int", v |-> v]
PyFloat(v) == [t |-> "float", v |-> v]
PyBool(v) == [t |-> "bool", v |-> v]
PyStr(v) == [t |-> "unicode", v |-> v]
PyList(v) == [t |-> "list", v |-> v]

\* The value of an expression in which a name stands for a value that is
\* computed once: The({e(r) : r \in {v}}) is e(v).
The(S) == CHOOSE x \in S : TRUE

\* record.__setattr__(attr, val) on an object with slots.
SetAttr(record, attr, val) ==
  [k \in (DOMAIN record) \cup {attr} |-> IF k = attr THEN val ELSE record[k]]

HasAttr(record, attr) == attr \in DOMAIN record

\* bolt.Flags: a named-bit view of an integer; unknown bits are kept.
Flags(v) == [t |-> "Flags", v |-> v]

Bit(n, i) == (n \div (2 ^ i)) % 2 = 1

\* Flags.__getattr__(name), for the name at bit i.
FlagGet(f, i) == Bit(f.v, i)

\* Flags.__setattr__(name, b), for the name at bit i.
FlagSet(f, i, b) ==
  [f EXCEPT !.v = IF b = Bit(@, i) THEN @
                  ELSE IF b THEN @ + 2 ^ i ELSE @ - 2 ^ i]

\* ------------------------------------------------------------------------
\* struct: little-endian, unpadded scalars
\* ------------------------------------------------------------------------
RECURSIVE FromLE(_)
FromLE(bs) == IF bs = <<>> THEN 0 ELSE Head(bs) + 256 * FromLE(Tail(bs))

RECURSIVE ToLE(_, _)
ToLE(n, k) == IF k = 0 THEN <<>> ELSE <<n % 256>> \o ToLE(n \div 256, k - 1)

\* Integers here are 32-bit: an unsigned 32-bit value is modelled up to
\* 2^31 - 1, and a signed one is computed from its top byte.
MinInt32 == -2147483647 - 1

ToSigned(n, k) == IF n >= 2 ^ (8 * k - 1) THEN n - 2 ^ (8 * k) ELSE n

FromLE32Signed(bs) ==
  IF bs[4] >= 128
    THEN FromLE(<<bs[1], bs[2], bs[3], bs[4] - 128>>) + MinInt32
    ELSE FromLE(bs)

FmtSize(fmt) ==
  CASE fmt \in {"b", "B"} -> 1
    [] fmt \in {"h", "H"} -> 2
    [] fmt \in {"i", "I", "f"} -> 4

\* A float32 is carried as its bit pattern, read as a signed 32-bit integer.
\* Widening to a Python float (a C double) and narrowing back keeps every
\* pattern except a signalling NaN, whose quiet bit (bit 22) the conversion
\* sets.
IsSNaN(bits) ==
  LET m == IF bits < 0 THEN bits - MinInt32 ELSE bits
  IN /\ (m \div 2 ^ 23) % 256 = 255
     /\ m % 2 ^ 23 # 0
     /\ (m \div 2 ^ 22) % 2 = 0

FloatUnpack(bits) == IF IsSNaN(bits) THEN bits + 2 ^ 22 ELSE bits

\* struct.Struct(fmt).unpack on exactly FmtSize(fmt) bytes.
struct_unpack(fmt, bs) ==
  CASE fmt \in {"B", "H", "I"} -> FromLE(bs)
    [] fmt \in {"b", "h"} -> ToSigned(FromLE(bs), FmtSize(fmt))
    [] fmt = "i" -> FromLE32Signed(bs)
    [] fmt = "f" -> FloatUnpack(FromLE32Signed(bs))

\* Whether struct_pack accepts the value (struct.error otherwise).
PackInRange(fmt, v) ==
  CASE fmt \in {"B", "H"} -> v >= 0 /\ v < 2 ^ (8 * FmtSize(fmt))
    [] fmt \in {"b", "h"} ->
         v >= -(2 ^ (8 * FmtSize(fmt) - 1)) /\ v < 2 ^ (8 * FmtSize(fmt) - 1)
    [] fmt = "I" -> v >= 0
    [] fmt \in {"i", "f"} -> TRUE

\* bolt.struct_pack(u'=' + fmt, v) of a value in range: the low bytes of
\* its two's complement.
struct_pack(fmt, v) == ToLE(v, FmtSize(fmt))

\* ------------------------------------------------------------------------
\* cp1252
\* ------------------------------------------------------------------------
\* The five bytes the cp1252 codec leaves undefined.
Cp1252Undefined == {129, 141, 143, 144, 157}

\* Code points of bytes 0x80..0x9F (0 where undefined).
Cp1252High ==
  <<8364, 0, 8218, 402, 8222, 8230, 8224, 8225, 710, 8240, 352, 8249, 338, 0,
    381, 0, 0, 8216, 8217, 8220, 8221, 8226, 8211, 8212, 732, 8482, 353, 8250,
    339, 0, 382, 376>>

Cp1252Char(b) == IF b >= 128 /\ b < 160 THEN Cp1252High[b - 127] ELSE b

Cp1252Byte(c) ==
  IF c < 128 \/ (c >= 160 /\ c < 256) THEN c
  ELSE CHOOSE b \in 128..159 : Cp1252High[b - 127] = c

\* bytes.decode('cp1252'): the text as a sequence of code points.
Cp1252Decode(bs) == [i \in 1..Len(bs) |-> Cp1252Char(bs[i])]

Cp1252Decodable(bs) == \A i \in 1..Len(bs) : bs[i] \notin Cp1252Undefined

\* bolt.encode(str_val, firstEncoding='cp1252') of text that cp1252 holds.
Cp1252Encode(s) == [i \in 1..Len(s) |-> Cp1252Byte(s[i])]

\* ------------------------------------------------------------------------
\* The input stream (ModReader)
\* ------------------------------------------------------------------------
\* The threaded state of a decode: the cursor, the exception raised so far
\* ("none": none), the class attributes the code reassigns, and the log of
\* decode steps performed.
Raise(st, e) == [st EXCEPT !.err = e]

Ok(st) == st.err = "none"

\* ins.read(size) / ins.unpack(unpacker, size): the bytes at the cursor, or
\* ModReadError when the stream ends before them.
ins_read(d, st, size) ==
  IF ~Ok(st) THEN [st |-> st, val |-> <<>>]
  ELSE IF st.pos + size > Len(d)
    THEN [st |-> Raise(st, "ModReadError"), val |-> <<>>]
    ELSE [st |-> [st EXCEPT !.pos = @ + size],
          val |-> SubSeq(d, st.pos + 1, st.pos + size)]

\* ins.unpack(struct.Struct(fmt).unpack, size): struct.error when the size
\* read is not the size of the format.
ins_unpack(d, st, fmt, size) ==
  The({IF ~Ok(r.st) THEN [st |-> r.st, val |-> 0]
       ELSE IF size # FmtSize(fmt)
         THEN [st |-> Raise(r.st, "struct.error"), val |-> 0]
         ELSE [st |-> r.st, val |-> struct_unpack(fmt, r.val)] :
         r \in {ins_read(d, st, size)}})

\* ins.seek(offset, 1): ModReadError when the target is outside the stream.
ins_seek(d, st, offset) ==
  IF ~Ok(st) THEN st
  ELSE IF st.pos + offset < 0 \/ st.pos + offset > Len(d)
    THEN Raise(st, "ModReadError")
    ELSE [st EXCEPT !.pos = @ + offset]

\* _read_vmad_str16: a 16-bit length, then that many bytes, decoded as cp1252.
read_vmad_str16(d, st) ==
  The({IF ~Ok(r.st) THEN [st |-> r.st, val |-> <<>>]
       ELSE IF ~Cp1252Decodable(r.val)
         THEN [st |-> Raise(r.st, "UnicodeDecodeError"), val |-> <<>>]
         ELSE [st |-> r.st, val |-> Cp1252Decode(r.val)] :
         r \in {The({ins_read(d, n.st, n.val) :
                       n \in {ins_unpack(d, st, "H", 2)}})}})

\* _dump_vmad_str16: the 16-bit length of the encoded text, then the text.
dump_vmad_str16(str_val) ==
  The({ToLE(Len(encoded_str), 2) \o encoded_str :
         encoded_str \in {Cp1252Encode(str_val)}})

\* ------------------------------------------------------------------------
\* Component classes: their 'processors' (attribute, format, size)
\* ------------------------------------------------------------------------
FragmentBasic_processors ==
  << <<"unknown1", "b", 1>>, <<"script_name", "str16">>,
     <<"fragment_name", "str16">> >>

FragmentPERK_processors ==
  << <<"fragment_index", "H", 2>>, <<"unknown1", "h", 2>>,
     <<"unknown2", "b", 1>>, <<"script_name", "str16">>,
     <<"fragment_name", "str16">> >>

FragmentQUST_processors ==
  << <<"quest_stage", "H", 2>>, <<"unknown1", "h", 2>>,
     <<"quest_stage_index", "I", 4>>, <<"unknown2", "b", 1>>,
     <<"script_name", "str16">>, <<"fragment_name", "str16">> >>

FragmentSCENPhase_processors ==
  << <<"fragment_flags", "B", 1>>, <<"phase_index", "B", 1>>,
     <<"unknown1", "h", 2>>, <<"unknown2", "b", 1>>, <<"unknown3", "b", 1>>,
     <<"script_name", "str16">>, <<"fragment_name", "str16">> >>

\* VmadHandlerINFO, VmadHandlerPACK and VmadHandlerSCEN declare the same.
VmadHandlerFixed_processors ==
  << <<"extra_bind_data_version", "b", 1>>, <<"fragment_flags", "B", 1>>,
     <<"file_name", "str16">> >>

VmadHandlerPERK_processors ==
  << <<"extra_bind_data_version", "b", 1>>, <<"file_name", "str16">>,
     <<"fragment_count", "H", 2>> >>

VmadHandlerQUST_processors ==
  << <<"extra_bind_data_version", "b", 1>>, <<"fragment_count", "H", 2>>,
     <<"file_name", "str16">> >>

Script_processors ==
  << <<"script_name", "str16">>, <<"script_flags", "B", 1>>,
     <<"property_count", "H", 2>> >>

\* Property._new_processors (VMAD >= v4) and Property._old_processors.
Property_new_processors ==
  << <<"prop_name", "str16">>, <<"prop_type", "B", 1>>,
     <<"prop_flags", "B", 1>> >>

\* (Old processors that read a flags byte as well.)
Property_old_processors_with_flags ==
  << <<"prop_name", "str16">>, <<"prop_type", "B", 1>>,
     <<"prop_flags", "B", 1>> >>

Property_old_processors ==
  << <<"prop_name", "str16">>, <<"prop_type", "B", 1>> >>

Alias_load_processors == <<>>

Alias_dump_processors ==
  << <<"alias_vmad_version", "h", 2>>, <<"alias_obj_format", "h", 2>>,
     <<"script_count", "H", 2>> >>

\* The class attributes assigned at run time: Property.processors and
\* Alias.processors.  Neither class declares one, so both start as the
\* empty OrderedDict inherited from _AVmadComponent.
ClassAttrs0 == [Property |-> <<>>, Alias |-> <<>>]

\* self.__class__.processors
processors(self, cls) ==
  CASE self = "Property" -> cls.Property
    [] self = "Alias" -> cls.Alias
    [] self = "FragmentBasic" -> FragmentBasic_processors
    [] self = "FragmentPERK" -> FragmentPERK_processors
    [] self = "FragmentQUST" -> FragmentQUST_processors
    [] self = "FragmentSCENPhase" -> FragmentSCENPhase_processors
    [] self \in {"VmadHandlerINFO", "VmadHandlerPACK", "VmadHandlerSCEN"} ->
         VmadHandlerFixed_processors
    [] self = "VmadHandlerPERK" -> VmadHandlerPERK_processors
    [] self = "VmadHandlerQUST" -> VmadHandlerQUST_processors
    [] self = "Script" -> Script_processors

\* flags_to_children of the fixed containers: (bit of the flag name in
\* flags_mapper, child attribute), in the declared order.
flags_to_children(self) ==
  IF self = "VmadHandlerPACK"
    THEN << <<0, "begin_frag">>, <<1, "end_frag">>, <<2, "change_frag">> >>
    ELSE << <<0, "begin_frag">>, <<1, "end_frag">> >>

\* child_loader, children_attr and counter_attr of the variable containers.
child_loader(self) ==
  CASE self \in {"VmadHandlerINFO", "VmadHandlerPACK", "VmadHandlerSCEN"} ->
         "FragmentBasic"
    [] self = "VmadHandlerPERK" -> "FragmentPERK"
    [] self = "VmadHandlerQUST" -> "FragmentQUST"
    [] self = "Script" -> "Property"
    [] self = "Alias" -> "Script"

children_attr(self) ==
  CASE self = "Script" -> "properties"
    [] self = "Alias" -> "scripts"
    [] OTHER -> "fragments"

counter_attr(self) ==
  CASE self = "Script" -> "property_count"
    [] self = "Alias" -> "script_count"
    [] OTHER -> "fragment_count"

\* make_new: a new instance of the component's runtime class, no slot set.
make_new(self) == [cls |-> self]

\* One entry of the decode log: the step, the cursor it started at and the
\* version/format it ran under (an ObjectRef is read under a format only).
LogStep(st, step, vmad_version, obj_format) ==
  [st EXCEPT !.log = Append(@, [step |-> step, ver |-> vmad_version,
                                fmt |-> obj_format, at |-> st.pos])]

LogRef(st, obj_format) ==
  [st EXCEPT !.log = Append(@, [step |-> "ObjectRef", fmt |-> obj_format,
                                at |-> st.pos])]

\* ------------------------------------------------------------------------
\* Decoding
\* ------------------------------------------------------------------------
\* _AVmadComponent.load_data: every processor in order, onto the record.
RECURSIVE load_processors(_, _, _, _)
load_processors(procs, record, d, st) ==
  IF procs = <<>> \/ ~Ok(st) THEN [st |-> st, val |-> record]
  ELSE LET p == Head(procs)
       IN The({IF ~Ok(r.st) THEN [st |-> r.st, val |-> record]
               ELSE load_processors(Tail(procs),
                      SetAttr(record, p[1],
                              IF p[2] = "str16" THEN PyStr(r.val)
                              ELSE PyInt(r.val)),
                      d, r.st) :
                 r \in {IF p[2] = "str16" THEN read_vmad_str16(d, st)
                        ELSE ins_unpack(d, st, p[2], p[3])}})

AVmadComponent_load_data(self, record, d, st) ==
  load_processors(processors(self, st.cls), record, d, st)

\* (A from_file that reads every reference as unused, aid, fid.)
ObjectRef_from_file_as_format2(d, st, obj_format) ==
  The({IF ~Ok(r.st) THEN [st |-> r.st, val |-> None]
       ELSE [st |-> r.st,
             val |-> ObjectRef(struct_unpack("h", SubSeq(r.val, 3, 4)),
                               struct_unpack("I", SubSeq(r.val, 5, 8)))] :
         r \in {ins_read(d, LogRef(st, obj_format), 8)}})

\* ObjectRef.from_file: 8 bytes, in the order the object format gives.
ObjectRef_from_file(d, st, obj_format) ==
  The({IF ~Ok(r.st) THEN [st |-> r.st, val |-> None]
       ELSE IF obj_format = 1
         THEN [st |-> r.st,
               val |-> ObjectRef(struct_unpack("h", SubSeq(r.val, 5, 6)),
                                 struct_unpack("I", SubSeq(r.val, 1, 4)))]
         ELSE [st |-> r.st,
               val |-> ObjectRef(struct_unpack("h", SubSeq(r.val, 3, 4)),
                                 struct_unpack("I", SubSeq(r.val, 5, 8)))] :
         r \in {ins_read(d, LogRef(st, obj_format), 8)}})

\* ObjectRef.array_from_file: a 32-bit count, then that many references.
RECURSIVE ObjectRef_read_n(_, _, _, _, _)
ObjectRef_read_n(n, acc, d, st, obj_format) ==
  IF n = 0 \/ ~Ok(st) THEN [st |-> st, val |-> acc]
  ELSE The({IF ~Ok(r.st) THEN [st |-> r.st, val |-> acc]
            ELSE ObjectRef_read_n(n - 1, Append(acc, r.val), d, r.st,
                                  obj_format) :
              r \in {ObjectRef_from_file(d, st, obj_format)}})

ObjectRef_array_from_file(d, st, obj_format) ==
  The({IF ~Ok(n.st) THEN [st |-> n.st, val |-> <<>>]
       ELSE ObjectRef_read_n(n.val, <<>>, d, n.st, obj_format) :
         n \in {ins_unpack(d, st, "I", 4)}})

\* [_read_vmad_str16(ins, read_id) for _x in xrange(n)]
RECURSIVE read_str16_n(_, _, _, _)
read_str16_n(n, acc, d, st) ==
  IF n = 0 \/ ~Ok(st) THEN [st |-> st, val |-> acc]
  ELSE The({IF ~Ok(r.st) THEN [st |-> r.st, val |-> acc]
            ELSE read_str16_n(n - 1, Append(acc, PyStr(r.val)), d, r.st) :
              r \in {read_vmad_str16(d, st)}})

\* ins.unpack(struct.Struct(u'%d<fmt>' % array_len).unpack, array_len * size):
\* one read of the whole array, then its elements.
unpack_array(d, st, fmt, array_len) ==
  The({IF ~Ok(r.st) THEN [st |-> r.st, val |-> <<>>]
       ELSE [st |-> r.st,
             val |-> [i \in 1..array_len |->
                        struct_unpack(fmt,
                          SubSeq(r.val, (i - 1) * FmtSize(fmt) + 1,
                                 i * FmtSize(fmt)))]] :
         r \in {ins_read(d, st, array_len * FmtSize(fmt))}})

\* (A load_data whose last branch, the bool array, is gone.)
LoadPropertyTypes_without_15 == {0, 1, 2, 3, 4, 5, 11, 12, 13, 14}

\* The property types Property.load_data has a branch for.
LoadPropertyTypes == {0, 1, 2, 3, 4, 5, 11, 12, 13, 14, 15}

\* The payload branch of Property.load_data, for a recognized type.
Property_load_payload(property_type, d, st, obj_format) ==
  CASE property_type = 0 -> [st |-> st, val |-> None]
    [] property_type = 1 -> ObjectRef_from_file(d, st, obj_format)
    [] property_type = 2 ->
         The({[st |-> r.st, val |-> PyStr(r.val)] :
                r \in {read_vmad_str16(d, st)}})
    [] property_type = 3 ->
         The({[st |-> r.st, val |-> PyInt(r.val)] :
                r \in {ins_unpack(d, st, "i", 4)}})
    [] property_type = 4 ->
         The({[st |-> r.st, val |-> PyFloat(r.val)] :
                r \in {ins_unpack(d, st, "f", 4)}})
    [] property_type = 5 ->
         The({[st |-> r.st, val |-> PyBool(r.val # 0)] :
                r \in {ins_unpack(d, st, "B", 1)}})
    [] property_type = 11 ->
         The({[st |-> r.st, val |-> PyList(r.val)] :
                r \in {ObjectRef_array_from_file(d, st, obj_format)}})
    [] property_type = 12 ->
         The({[st |-> r.st, val |-> PyList(r.val)] :
                r \in {The({read_str16_n(n.val, <<>>, d, n.st) :
                              n \in {ins_unpack(d, st, "I", 4)}})}})
    [] property_type = 13 ->
         The({[st |-> r.st,
               val |-> PyList([i \in 1..Len(r.val) |-> PyInt(r.val[i])])] :
                r \in {The({unpack_array(d, n.st, "i", n.val) :
                              n \in {ins_unpack(d, st, "I", 4)}})}})
    [] property_type = 14 ->
         The({[st |-> r.st,
               val |-> PyList([i \in 1..Len(r.val) |-> PyFloat(r.val[i])])] :
                r \in {The({unpack_array(d, n.st, "f", n.val) :
                              n \in {ins_unpack(d, st, "I", 4)}})}})
    [] property_type = 15 ->
         The({[st |-> r.st,
               val |-> PyList([i \in 1..Len(r.val) |->
                                 PyBool(r.val[i] # 0)])] :
                r \in {The({unpack_array(d, n.st, "B", n.val) :
                              n \in {ins_unpack(d, st, "I", 4)}})}})

\* Property.load_data
Property_load_data(record, d, st0, vmad_version, obj_format) ==
  LET st == LogStep(st0, "Property", vmad_version, obj_format)
      st1 == [st EXCEPT !.cls.Property =
                IF vmad_version >= 4 THEN Property_new_processors
                ELSE Property_old_processors]
      rec0 == IF vmad_version >= 4 THEN record
              ELSE SetAttr(record, "prop_flags", PyInt(1))
  IN The({IF ~Ok(r.st) THEN r
          ELSE The({IF rec1.prop_type.v \notin LoadPropertyTypes
                      THEN [st |-> Raise(r.st, "ModError: property type"),
                            val |-> rec1]
                      ELSE The({IF ~Ok(q.st) THEN [st |-> q.st, val |-> rec1]
                                ELSE [st |-> q.st,
                                      val |-> SetAttr(rec1, "prop_data",
                                                      q.val)] :
                                  q \in {Property_load_payload(
                                           rec1.prop_type.v, d, r.st,
                                           obj_format)}}) :
                      rec1 \in {SetAttr(r.val, "prop_flags",
                                        Flags(r.val.prop_flags.v))}}) :
            r \in {AVmadComponent_load_data("Property", rec0, d, st1)}})

\* self.load_data of a component, by its class.
RECURSIVE load_data(_, _, _, _, _, _)

\* The child loop of a container: new_child(), load_child(child, ...),
\* append, count times.
RECURSIVE load_children(_, _, _, _, _, _, _)
load_children(child_cls, count, children, d, st, vmad_version, obj_format) ==
  IF count = 0 \/ ~Ok(st) THEN [st |-> st, val |-> children]
  ELSE The({IF ~Ok(r.st) THEN [st |-> r.st, val |-> children]
            ELSE load_children(child_cls, count - 1, Append(children, r.val),
                               d, r.st, vmad_version, obj_format) :
              r \in {load_data(child_cls, make_new(child_cls), d, st,
                               vmad_version, obj_format)}})

\* _AVariableContainer.load_data: the regular attributes, then counter_attr
\* children; children_attr is set once all of them are loaded.
AVariableContainer_load_data(self, record, d, st, vmad_version, obj_format) ==
  The({IF ~Ok(r.st) THEN r
       ELSE IF ~HasAttr(r.val, counter_attr(self))
         THEN [st |-> Raise(r.st, "AttributeError"), val |-> r.val]
         ELSE The({IF ~Ok(c.st) THEN [st |-> c.st, val |-> r.val]
                   ELSE [st |-> c.st,
                         val |-> SetAttr(r.val, children_attr(self), c.val)] :
                     c \in {load_children(child_loader(self),
                                          r.val[counter_attr(self)].v, <<>>,
                                          d, r.st, vmad_version,
                                          obj_format)}}) :
         r \in {AVmadComponent_load_data(self, record, d, st)}})

\* The child loop of _AFixedContainer.load_data over flags_to_children.
RECURSIVE load_fixed_children(_, _, _, _, _, _, _, _)
load_fixed_children(self, slots, child_flags, record, d, st, version, format) ==
  IF slots = <<>> \/ ~Ok(st) THEN [st |-> st, val |-> record]
  ELSE LET slot == Head(slots)
       IN IF FlagGet(child_flags, slot[1])
            THEN The({IF ~Ok(r.st) THEN [st |-> r.st, val |-> record]
                      ELSE load_fixed_children(self, Tail(slots), child_flags,
                             SetAttr(record, slot[2], r.val), d, r.st,
                             version, format) :
                        r \in {load_data(child_loader(self),
                                         make_new(child_loader(self)), d, st,
                                         version, format)}})
            ELSE load_fixed_children(self, Tail(slots), child_flags,
                   SetAttr(record, slot[2], None), d, st, version,
                   format)

\* _AFixedContainer.load_data: the regular attributes, the flags decoded in
\* place, then one child per set flag, None for the others.
AFixedContainer_load_data(self, record, d, st, vmad_version, obj_format) ==
  The({IF ~Ok(r.st) THEN r
       ELSE load_fixed_children(self, flags_to_children(self),
              Flags(r.val.fragment_flags.v),
              SetAttr(r.val, "fragment_flags", Flags(r.val.fragment_flags.v)),
              d, r.st, vmad_version, obj_format) :
         r \in {AVmadComponent_load_data(self, record, d, st)}})

\* Script.load_data: the variable container, then the flags byte as Flags.
Script_load_data(record, d, st, vmad_version, obj_format) ==
  The({IF ~Ok(r.st) THEN r
       ELSE [st |-> r.st,
             val |-> SetAttr(r.val, "script_flags",
                             Flags(r.val.script_flags.v))] :
         r \in {AVariableContainer_load_data("Script", record, d,
                  LogStep(st, "Script", vmad_version, obj_format),
                  vmad_version, obj_format)}})

\* FragmentSCENPhase.load_data: the processors set fragment_flags, and the
\* method then reads the attribute fragment_phase_flags.
FragmentSCENPhase_load_data(record, d, st) ==
  The({IF ~Ok(r.st) THEN r
       ELSE IF ~HasAttr(r.val, "fragment_phase_flags")
         THEN [st |-> Raise(r.st, "AttributeError"), val |-> r.val]
         ELSE [st |-> r.st,
               val |-> SetAttr(r.val, "fragment_phase_flags",
                               Flags(r.val.fragment_phase_flags.v))] :
         r \in {AVmadComponent_load_data("FragmentSCENPhase", record, d,
                                         st)}})

\* (An Alias.load_data that decodes under the version and format it was
\* handed.)
Alias_load_data_outer(record, d, st0, outer_version, outer_format) ==
  LET st == [LogStep(st0, "Alias", outer_version, outer_format)
               EXCEPT !.cls.Alias = Alias_load_processors]
  IN The({IF ~Ok(h.st) THEN h
          ELSE The({IF ~Ok(s2) THEN [st |-> s2, val |-> h.val]
                    ELSE The({IF ~Ok(o.st) THEN [st |-> o.st, val |-> h.val]
                              ELSE AVariableContainer_load_data("Alias",
                                     SetAttr(h.val, "alias_ref_obj", o.val),
                                     d, ins_seek(d, o.st, 6),
                                     outer_version, outer_format) :
                                o \in {ObjectRef_from_file(d, s2,
                                         outer_format)}}) :
                      s2 \in {ins_seek(d, h.st, -14)}}) :
            h \in {load_processors(Alias_dump_processors, record, d,
                                   ins_seek(d, st, 8))}})

\* Alias.load_data: skip the ObjectRef, read the three header attributes
\* (each unpacked onto the record as _dump_processors lists them: 'h', 'h',
\* 'H'), go back and read the ObjectRef under the alias's own object format,
\* skip the header again, then load the scripts under the alias's own
\* version and format.
Alias_load_data(record, d, st0, outer_version, outer_format) ==
  LET st == [LogStep(st0, "Alias", outer_version, outer_format)
               EXCEPT !.cls.Alias = Alias_load_processors]
  IN The({IF ~Ok(h.st) THEN h
          ELSE The({IF ~Ok(s2) THEN [st |-> s2, val |-> h.val]
                    ELSE The({IF ~Ok(o.st) THEN [st |-> o.st, val |-> h.val]
                              ELSE AVariableContainer_load_data("Alias",
                                     SetAttr(h.val, "alias_ref_obj", o.val),
                                     d, ins_seek(d, o.st, 6),
                                     h.val.alias_vmad_version.v,
                                     h.val.alias_obj_format.v) :
                                o \in {ObjectRef_from_file(d, s2,
                                         h.val.alias_obj_format.v)}}) :
                      s2 \in {ins_seek(d, h.st, -14)}}) :
            h \in {load_processors(Alias_dump_processors, record, d,
                                   ins_seek(d, st, 8))}})

\* VmadHandlerQUST.load_data: the fragments, then a 16-bit count of aliases
\* and the aliases, appended to record.aliases as they are loaded.
VmadHandlerQUST_load_data(record, d, st, vmad_version, obj_format) ==
  The({IF ~Ok(r.st) THEN r
       ELSE The({IF ~Ok(n.st)
                   THEN [st |-> n.st, val |-> SetAttr(r.val, "aliases", <<>>)]
                   ELSE The({[st |-> a.st,
                              val |-> SetAttr(r.val, "aliases", a.val)] :
                               a \in {load_children("Alias", n.val, <<>>, d,
                                                    n.st, vmad_version,
                                                    obj_format)}}) :
                   n \in {ins_unpack(d, r.st, "H", 2)}}) :
         r \in {AVariableContainer_load_data("VmadHandlerQUST", record, d, st,
                                             vmad_version, obj_format)}})

\* VmadHandlerSCEN.load_data: the fixed container, then a 16-bit count of
\* phase fragments and the phase fragments, appended as they are loaded.
VmadHandlerSCEN_load_data(record, d, st, vmad_version, obj_format) ==
  The({IF ~Ok(r.st) THEN r
       ELSE The({IF ~Ok(n.st)
                   THEN [st |-> n.st,
                         val |-> SetAttr(r.val, "phase_fragments", <<>>)]
                   ELSE The({[st |-> a.st,
                              val |-> SetAttr(r.val, "phase_fragments",
                                              a.val)] :
                               a \in {load_children("FragmentSCENPhase",
                                                    n.val, <<>>, d, n.st,
                                                    vmad_version,
                                                    obj_format)}}) :
                   n \in {ins_unpack(d, r.st, "H", 2)}}) :
         r \in {AFixedContainer_load_data("VmadHandlerSCEN", record, d, st,
                                          vmad_version, obj_format)}})

load_data(self, record, d, st, vmad_version, obj_format) ==
  CASE self = "Property" ->
         Property_load_data(record, d, st, vmad_version, obj_format)
    [] self = "Script" ->
         Script_load_data(record, d, st, vmad_version, obj_format)
    [] self = "Alias" ->
         Alias_load_data(record, d, st, vmad_version, obj_format)
    [] self = "FragmentSCENPhase" ->
         FragmentSCENPhase_load_data(record, d, st)
    [] self \in {"FragmentBasic", "FragmentPERK", "FragmentQUST"} ->
         AVmadComponent_load_data(self, record, d, st)
    [] self \in {"VmadHandlerINFO", "VmadHandlerPACK"} ->
         AFixedContainer_load_data(self, record, d, st, vmad_version,
                                   obj_format)
    [] self = "VmadHandlerPERK" ->
         AVariableContainer_load_data(self, record, d, st, vmad_version,
                                      obj_format)
    [] self = "VmadHandlerQUST" ->
         VmadHandlerQUST_load_data(record, d, st, vmad_version, obj_format)
    [] self = "VmadHandlerSCEN" ->
         VmadHandlerSCEN_load_data(record, d, st, vmad_version, obj_format)

\* ------------------------------------------------------------------------
\* MelVmad.loadData
\* ------------------------------------------------------------------------
\* MelVmad._handler_map: the record signatures with a special handler.
handler_map_keys == {"INFO", "PACK", "PERK", "QUST", "SCEN"}

handler_class(record_sig) ==
  CASE record_sig = "INFO" -> "VmadHandlerINFO"
    [] record_sig = "PACK" -> "VmadHandlerPACK"
    [] record_sig = "PERK" -> "VmadHandlerPERK"
    [] record_sig = "QUST" -> "VmadHandlerQUST"
    [] record_sig = "SCEN" -> "VmadHandlerSCEN"

\* (A _get_special_handler that makes a new instance at every call.)
get_special_handler_always_new(table, record_sig, fresh) ==
  [table |-> [table EXCEPT ![record_sig].instance = fresh],
   handler |-> [table[record_sig] EXCEPT !.instance = fresh]]

\* MelVmad._get_special_handler on the class-level table: an entry that is
\* still the class (instance 0) is replaced by a new instance of it, the
\* fresh-th object made; an entry that is an instance is returned as it is.
get_special_handler(table, record_sig, fresh) ==
  IF table[record_sig].instance = 0
    THEN [table |-> [table EXCEPT ![record_sig].instance = fresh],
          handler |-> [table[record_sig] EXCEPT !.instance = fresh]]
    ELSE [table |-> table, handler |-> table[record_sig]]

\* The script loop of MelVmad.loadData; vmad.scripts grows in place.
load_scripts(script_count, d, st, vmad_version, obj_format) ==
  load_children("Script", script_count, <<>>, d, st, vmad_version, obj_format)

\* The header checks of MelVmad.loadData.
\* (A version check that lets version 0 through.)
version_ok_from_zero(vmad_version) == ~(vmad_version < 0 \/ vmad_version > 5)

version_ok(vmad_version) == ~(vmad_version < 1 \/ vmad_version > 5)

\* (A format check that lets object format 3 through.)
format_ok_with_three(obj_format) == obj_format \in {1, 2, 3}

format_ok(obj_format) == obj_format \in {1, 2}

\* (A handler test that still holds with the cursor at the declared end.)
wants_special_at_end(recType, at, end_of_vmad) ==
  recType \in handler_map_keys /\ at <= end_of_vmad

\* The test that decides whether a special handler is called.
wants_special(recType, at, end_of_vmad) ==
  recType \in handler_map_keys /\ at < end_of_vmad

\* MelVmad.loadData(record, ins, sub_type, size_, readId) with the cursor at
\* st.pos: the state after the call and the value left in record.vmdata.
MelVmad_loadData(recType, d, st, size_) ==
  LET end_of_vmad == st.pos + size_
      vmad == [cls |-> "_MelVmadImpl"]
  IN The({IF ~Ok(h1.st) THEN [st |-> h1.st, val |-> vmad]
          ELSE LET vmad_version == struct_unpack("h", SubSeq(h1.val, 1, 2))
                   obj_format == struct_unpack("h", SubSeq(h1.val, 3, 4))
                   script_count == struct_unpack("H", SubSeq(h1.val, 5, 6))
                   special_handler == handler_class(recType)
               IN IF ~version_ok(vmad_version)
                    THEN [st |-> Raise(h1.st, "ModError: version"),
                          val |-> vmad]
                  ELSE IF ~format_ok(obj_format)
                    THEN [st |-> Raise(h1.st, "ModError: object format"),
                          val |-> vmad]
                  ELSE The({IF ~Ok(sc.st)
                              THEN [st |-> sc.st,
                                    val |-> SetAttr(vmad, "scripts", sc.val)]
                            ELSE IF wants_special(recType, sc.st.pos,
                                                  end_of_vmad)
                              THEN The({[st |-> sp.st,
                                         val |-> SetAttr(
                                                   SetAttr(vmad, "scripts",
                                                           sc.val),
                                                   "special_data", sp.val)] :
                                          sp \in {load_data(special_handler,
                                                    make_new(special_handler),
                                                    d,
                                                    LogStep(
                                                      LogStep(sc.st,
                                                        "ScriptsDone",
                                                        vmad_version,
                                                        obj_format),
                                                      "Handler", vmad_version,
                                                      obj_format),
                                                    vmad_version,
                                                    obj_format)}})
                              ELSE [st |-> LogStep(sc.st, "ScriptsDone",
                                                   vmad_version, obj_format),
                                    val |-> SetAttr(
                                              SetAttr(vmad, "scripts",
                                                      sc.val),
                                              "special_data", None)] :
                              sc \in {load_scripts(script_count, d, h1.st,
                                                   vmad_version,
                                                   obj_format)}}) :
            h1 \in {ins_read(d, LogStep(st, "Header", 0, 0), 6)}})

\* ------------------------------------------------------------------------
\* Encoding
\* ------------------------------------------------------------------------
\* A dump returns the threaded state (exception, class attributes, log of
\* encode steps), the record as the dump leaves it and the bytes produced.

\* _AVmadComponent.dump_data: every processor in order, off the record.
RECURSIVE dump_processors(_, _, _, _)
dump_processors(procs, record, st, out_data) ==
  IF procs = <<>> \/ ~Ok(st) THEN [st |-> st, rec |-> record, out |-> out_data]
  ELSE LET p == Head(procs)
       IN IF ~HasAttr(record, p[1])
            THEN [st |-> Raise(st, "AttributeError"), rec |-> record,
                  out |-> out_data]
          ELSE IF p[2] = "str16"
            THEN dump_processors(Tail(procs), record, st,
                   out_data \o dump_vmad_str16(record[p[1]].v))
          ELSE IF ~PackInRange(p[2], record[p[1]].v)
            THEN [st |-> Raise(st, "struct.error"), rec |-> record,
                  out |-> out_data]
            ELSE dump_processors(Tail(procs), record, st,
                   out_data \o struct_pack(p[2], record[p[1]].v))

AVmadComponent_dump_data(self, record, st) ==
  dump_processors(processors(self, st.cls), record, st, <<>>)

\* (A dump_out in the layout of object format 1: fid, aid, unused.)
ObjectRef_dump_out_format1(ref) ==
  struct_pack("I", ref.fid) \o struct_pack("h", ref.aid) \o struct_pack("H", 0)

\* ObjectRef.dump_out: always the layout of object format 2.
ObjectRef_dump_out(ref) ==
  struct_pack("H", 0) \o struct_pack("h", ref.aid) \o struct_pack("I", ref.fid)

LogDump(st, step, what) ==
  [st EXCEPT !.log = Append(@, [step |-> step, wrote |-> what])]

\* The log entry of a count: the bytes that went out for it and the list
\* it counts.
LogCount(st, field, bytes, children) ==
  LogDump(st, "Count", [field |-> field, bytes |-> bytes, list |-> children])

\* Where the processors put an attribute: the number of bytes the
\* attributes before it take.
RECURSIVE attr_offset(_, _, _)
attr_offset(procs, record, attr) ==
  LET p == Head(procs)
  IN IF p[1] = attr THEN 0
     ELSE (IF p[2] = "str16" THEN Len(dump_vmad_str16(record[p[1]].v))
           ELSE p[3])
          + attr_offset(Tail(procs), record, attr)

\* ObjectRef.dump_array: a 32-bit length, then each reference.
RECURSIVE ObjectRef_dump_each(_)
ObjectRef_dump_each(target_list) ==
  IF target_list = <<>> THEN <<>>
  ELSE ObjectRef_dump_out(Head(target_list))
       \o ObjectRef_dump_each(Tail(target_list))

ObjectRef_dump_array(target_list) ==
  struct_pack("I", Len(target_list)) \o ObjectRef_dump_each(target_list)

\* b''.join(f(x) for x in property_data) of the scalar arrays.
RECURSIVE dump_each(_, _)
dump_each(fmt, property_data) ==
  IF property_data = <<>> THEN <<>>
  ELSE (CASE fmt = "str16" -> dump_vmad_str16(Head(property_data).v)
          [] fmt = "B" -> struct_pack("B", IF Head(property_data).v THEN 1 ELSE 0)
          [] OTHER -> struct_pack(fmt, Head(property_data).v))
       \o dump_each(fmt, Tail(property_data))

\* (A dump_data whose string array branch is gone.)
DumpPropertyTypes_without_12 == {0, 1, 2, 3, 4, 5, 11, 13, 14, 15}

\* The property types Property.dump_data has a branch for.
DumpPropertyTypes == {0, 1, 2, 3, 4, 5, 11, 12, 13, 14, 15}

\* The payload branch of Property.dump_data, for a recognized type.
\* (A dump that writes every float as 0.0.)
Property_dump_payload_zero_float(property_type, property_data) ==
  CASE property_type = 0 -> <<>>
    [] property_type = 1 -> ObjectRef_dump_out(property_data)
    [] property_type = 2 -> dump_vmad_str16(property_data.v)
    [] property_type = 3 -> struct_pack("i", property_data.v)
    [] property_type = 4 -> struct_pack("f", 0)
    [] property_type = 5 -> struct_pack("b", IF property_data.v THEN 1 ELSE 0)
    [] property_type = 11 -> ObjectRef_dump_array(property_data.v)
    [] property_type = 12 ->
         struct_pack("I", Len(property_data.v))
         \o dump_each("str16", property_data.v)
    [] property_type = 13 ->
         struct_pack("I", Len(property_data.v)) \o dump_each("i", property_data.v)
    [] property_type = 14 ->
         struct_pack("I", Len(property_data.v)) \o dump_each("f", property_data.v)
    [] property_type = 15 ->
         struct_pack("I", Len(property_data.v)) \o dump_each("B", property_data.v)

Property_dump_payload(property_type, property_data) ==
  CASE property_type = 0 -> <<>>
    [] property_type = 1 -> ObjectRef_dump_out(property_data)
    [] property_type = 2 -> dump_vmad_str16(property_data.v)
    [] property_type = 3 -> struct_pack("i", property_data.v)
    [] property_type = 4 -> struct_pack("f", property_data.v)
    [] property_type = 5 -> struct_pack("b", IF property_data.v THEN 1 ELSE 0)
    [] property_type = 11 -> ObjectRef_dump_array(property_data.v)
    [] property_type = 12 ->
         struct_pack("I", Len(property_data.v))
         \o dump_each("str16", property_data.v)
    [] property_type = 13 ->
         struct_pack("I", Len(property_data.v)) \o dump_each("i", property_data.v)
    [] property_type = 14 ->
         struct_pack("I", Len(property_data.v)) \o dump_each("f", property_data.v)
    [] property_type = 15 ->
         struct_pack("I", Len(property_data.v)) \o dump_each("B", property_data.v)

\* The ObjectRefs a property payload holds, as ObjectRef.dump_out wrote them.
RefsWritten(property_type, property_data) ==
  CASE property_type = 1 -> <<property_data>>
    [] property_type = 11 -> property_data.v
    [] OTHER -> <<>>

RECURSIVE LogRefsDumped(_, _)
LogRefsDumped(st, refs) ==
  IF refs = <<>> THEN st
  ELSE LogRefsDumped(
         LogDump(st, "ObjectRef",
                 [ref |-> Head(refs), bytes |-> ObjectRef_dump_out(Head(refs))]),
         Tail(refs))

\* (A Property.dump_data that writes with the processors the last call left.)
Property_dump_data_stale(record, st0) ==
  LET st == st0
  IN The({IF ~Ok(r.st) THEN r
          ELSE IF ~HasAttr(record, "prop_data")
            THEN [st |-> Raise(r.st, "AttributeError"), rec |-> record,
                  out |-> r.out]
          ELSE IF record.prop_type.v \notin DumpPropertyTypes
            THEN [st |-> Raise(r.st, "ModError: property type"),
                  rec |-> record, out |-> r.out]
            ELSE The({[st |-> LogRefsDumped(
                                IF record.prop_type.v \in {11, 12, 13, 14, 15}
                                  THEN LogCount(st1, "array",
                                                SubSeq(payload, 1, 4),
                                                record.prop_data.v)
                                  ELSE st1,
                                RefsWritten(record.prop_type.v,
                                            record.prop_data)),
                       rec |-> record, out |-> r.out \o payload] :
                        payload \in {Property_dump_payload(
                                       record.prop_type.v, record.prop_data)},
                        st1 \in {LogDump(r.st, "Property",
                                   [attrs |-> [i \in DOMAIN r.st.cls.Property
                                                 |-> r.st.cls.Property[i][1]],
                                    bytes |-> r.out])}}) :
            r \in {AVmadComponent_dump_data("Property", record, st)}})

\* Property.dump_data
Property_dump_data(record, st0) ==
  LET st == [st0 EXCEPT !.cls.Property = Property_new_processors]
  IN The({IF ~Ok(r.st) THEN r
          ELSE IF ~HasAttr(record, "prop_data")
            THEN [st |-> Raise(r.st, "AttributeError"), rec |-> record,
                  out |-> r.out]
          ELSE IF record.prop_type.v \notin DumpPropertyTypes
            THEN [st |-> Raise(r.st, "ModError: property type"),
                  rec |-> record, out |-> r.out]
            ELSE The({[st |-> LogRefsDumped(
                                IF record.prop_type.v \in {11, 12, 13, 14, 15}
                                  THEN LogCount(st1, "array",
                                                SubSeq(payload, 1, 4),
                                                record.prop_data.v)
                                  ELSE st1,
                                RefsWritten(record.prop_type.v,
                                            record.prop_data)),
                       rec |-> record, out |-> r.out \o payload] :
                        payload \in {Property_dump_payload(
                                       record.prop_type.v, record.prop_data)},
                        st1 \in {LogDump(r.st, "Property",
                                   [attrs |-> [i \in DOMAIN r.st.cls.Property
                                                 |-> r.st.cls.Property[i][1]],
                                    bytes |-> r.out])}}) :
            r \in {AVmadComponent_dump_data("Property", record, st)}})

\* self.dump_data of a component, by its class.
RECURSIVE dump_data(_, _, _)

\* for child in children: out_data += dump_child(child); the children as
\* the dumps leave them.
RECURSIVE dump_children(_, _, _, _, _)
dump_children(child_cls, children, st, done, out_data) ==
  IF children = <<>> \/ ~Ok(st)
    THEN [st |-> st, rec |-> done \o children, out |-> out_data]
  ELSE The({IF ~Ok(r.st)
              THEN [st |-> r.st, rec |-> done \o <<r.rec>> \o Tail(children),
                    out |-> out_data]
              ELSE dump_children(child_cls, Tail(children), r.st,
                                 Append(done, r.rec), out_data \o r.out) :
              r \in {dump_data(child_cls, Head(children), st)}})

\* (A container that writes the count it has stored.)
update_counter_skipped(self, record, children) == record

\* setattr(record, counter_attr, len(children))
update_counter(self, record, children) ==
  SetAttr(record, counter_attr(self), PyInt(Len(children)))

\* _AVariableContainer.dump_data: counter_attr := len(children), the regular
\* attributes, then each child.
AVariableContainer_dump_data(self, record, st) ==
  IF ~HasAttr(record, children_attr(self))
    THEN [st |-> Raise(st, "AttributeError"), rec |-> record, out |-> <<>>]
  ELSE LET children == record[children_attr(self)]
       IN The({The({IF ~Ok(r.st) THEN r
                    ELSE The({[st |-> c.st,
                               rec |-> SetAttr(rec1, children_attr(self),
                                               c.rec),
                               out |-> c.out] :
                                c \in {dump_children(child_loader(self),
                                         children,
                                         LogCount(r.st, counter_attr(self),
                                           SubSeq(r.out,
                                             attr_offset(
                                               processors(self, st.cls), rec1,
                                               counter_attr(self)) + 1,
                                             attr_offset(
                                               processors(self, st.cls), rec1,
                                               counter_attr(self)) + 2),
                                           children),
                                         <<>>, r.out)}}) :
                      r \in {AVmadComponent_dump_data(self, rec1, st)}}) :
                 rec1 \in {update_counter(self, record, children)}})

\* (A flag update that also sets a flag the container does not declare.)
set_child_flag_and_reserved(child_flags, slot, child) ==
  FlagSet(FlagSet(child_flags, slot[1], child # None), 6, TRUE)

\* (A flag update that never clears a flag.)
set_child_flag_only_sets(child_flags, slot, child) ==
  IF child # None THEN FlagSet(child_flags, slot[1], TRUE) ELSE child_flags

\* set_flag(flag_attr, True) for a child that is not None, set_flag(
\* flag_attr, False) for one that is.
set_child_flag(child_flags, slot, child) ==
  FlagSet(child_flags, slot[1], child # None)

\* The first loop of _AFixedContainer.dump_data: each flag set from whether
\* its child is not None, the present children kept in order.
RECURSIVE update_child_flags(_, _, _, _)
update_child_flags(slots, record, child_flags, children) ==
  IF slots = <<>> THEN [ok |-> TRUE, flags |-> child_flags, children |-> children]
  ELSE LET slot == Head(slots)
       IN IF ~HasAttr(record, slot[2])
            THEN [ok |-> FALSE, flags |-> child_flags, children |-> children]
          ELSE update_child_flags(Tail(slots), record,
                 set_child_flag(child_flags, slot, record[slot[2]]),
                 IF record[slot[2]] # None
                   THEN Append(children, record[slot[2]]) ELSE children)

\* _AFixedContainer.dump_data: the flags updated in place, the regular
\* attributes, then each present child in order.
AFixedContainer_dump_data(self, record, st) ==
  IF ~HasAttr(record, "fragment_flags")
    THEN [st |-> Raise(st, "AttributeError"), rec |-> record, out |-> <<>>]
  ELSE The({The({IF ~u.ok
                   THEN [st |-> Raise(st, "AttributeError"), rec |-> rec1,
                         out |-> <<>>]
                   ELSE The({IF ~Ok(r.st) THEN r
                             ELSE The({[st |-> c.st, rec |-> rec1,
                                        out |-> c.out] :
                                         c \in {dump_children(
                                                  child_loader(self),
                                                  u.children,
                                                  LogDump(r.st,
                                                    "FixedContainer",
                                                    [flags |->
                                                       SubSeq(r.out, 2, 2)[1],
                                                     children |->
                                                       u.children]),
                                                  <<>>, r.out)}}) :
                               r \in {AVmadComponent_dump_data(self, rec1,
                                                               st)}}) :
                   rec1 \in {SetAttr(record, "fragment_flags", u.flags)}}) :
              u \in {update_child_flags(flags_to_children(self), record,
                                        record.fragment_flags, <<>>)}})

\* (An Alias.dump_data that leaves the alias's version and format as loaded.)
Alias_dump_data_keeps_header(record, st0) ==
  LET st == [st0 EXCEPT !.cls.Alias = Alias_dump_processors]
  IN IF ~HasAttr(record, "alias_ref_obj")
       THEN [st |-> Raise(st, "AttributeError"), rec |-> record, out |-> <<>>]
       ELSE The({[st |-> IF Ok(r.st)
                           THEN LogDump(r.st, "Alias",
                                        [header |-> SubSeq(r.out, 1, 6)])
                           ELSE r.st,
                  rec |-> r.rec,
                  out |-> ObjectRef_dump_out(record.alias_ref_obj) \o r.out] :
                   r \in {AVariableContainer_dump_data("Alias",
                            record,
                            LogRefsDumped(st, <<record.alias_ref_obj>>))}})

\* Alias.dump_data: the ObjectRef, then version 5 and format 2 stored and
\* dumped with the script count and the scripts.
Alias_dump_data(record, st0) ==
  LET st == [st0 EXCEPT !.cls.Alias = Alias_dump_processors]
  IN IF ~HasAttr(record, "alias_ref_obj")
       THEN [st |-> Raise(st, "AttributeError"), rec |-> record, out |-> <<>>]
       ELSE The({[st |-> IF Ok(r.st)
                           THEN LogDump(r.st, "Alias",
                                        [header |-> SubSeq(r.out, 1, 6)])
                           ELSE r.st,
                  rec |-> r.rec,
                  out |-> ObjectRef_dump_out(record.alias_ref_obj) \o r.out] :
                   r \in {AVariableContainer_dump_data("Alias",
                            SetAttr(SetAttr(record, "alias_vmad_version",
                                            PyInt(5)),
                                    "alias_obj_format", PyInt(2)),
                            LogRefsDumped(st, <<record.alias_ref_obj>>))}})

\* (A QUST handler that writes the aliases without their count.)
VmadHandlerQUST_dump_data_uncounted(record, st) ==
  The({IF ~Ok(r.st) THEN r
       ELSE IF ~HasAttr(r.rec, "aliases")
         THEN [st |-> Raise(r.st, "AttributeError"), rec |-> r.rec,
               out |-> r.out]
         ELSE The({[st |-> a.st, rec |-> SetAttr(r.rec, "aliases", a.rec),
                    out |-> a.out] :
                     a \in {dump_children("Alias", r.rec.aliases, r.st,
                                          <<>>, r.out)}}) :
         r \in {AVariableContainer_dump_data("VmadHandlerQUST", record, st)}})

\* VmadHandlerQUST.dump_data: the fragments, then the number of aliases and
\* each alias.
VmadHandlerQUST_dump_data(record, st) ==
  The({IF ~Ok(r.st) THEN r
       ELSE IF ~HasAttr(r.rec, "aliases")
         THEN [st |-> Raise(r.st, "AttributeError"), rec |-> r.rec,
               out |-> r.out]
         ELSE The({[st |-> a.st, rec |-> SetAttr(r.rec, "aliases", a.rec),
                    out |-> a.out] :
                     a \in {The({dump_children("Alias", r.rec.aliases,
                                   LogCount(r.st, "aliases", n,
                                            r.rec.aliases),
                                   <<>>, r.out \o n) :
                                   n \in {struct_pack("H",
                                            Len(r.rec.aliases))}})}}) :
         r \in {AVariableContainer_dump_data("VmadHandlerQUST", record, st)}})

\* VmadHandlerSCEN.dump_data: the fixed container, then the number of phase
\* fragments and each phase fragment.
VmadHandlerSCEN_dump_data(record, st) ==
  The({IF ~Ok(r.st) THEN r
       ELSE IF ~HasAttr(r.rec, "phase_fragments")
         THEN [st |-> Raise(r.st, "AttributeError"), rec |-> r.rec,
               out |-> r.out]
         ELSE The({[st |-> a.st,
                    rec |-> SetAttr(r.rec, "phase_fragments", a.rec),
                    out |-> a.out] :
                     a \in {The({dump_children("FragmentSCENPhase",
                                   r.rec.phase_fragments,
                                   LogCount(r.st, "phase_fragments", n,
                                            r.rec.phase_fragments),
                                   <<>>, r.out \o n) :
                                   n \in {struct_pack("H",
                                            Len(r.rec.phase_fragments))}})}}) :
         r \in {AFixedContainer_dump_data("VmadHandlerSCEN", record, st)}})

dump_data(self, record, st) ==
  CASE self = "Property" -> Property_dump_data(record, st)
    [] self = "Alias" -> Alias_dump_data(record, st)
    [] self \in {"FragmentBasic", "FragmentPERK", "FragmentQUST",
                 "FragmentSCENPhase"} ->
         AVmadComponent_dump_data(self, record, st)
    [] self \in {"VmadHandlerINFO", "VmadHandlerPACK"} ->
         AFixedContainer_dump_data(self, record, st)
    [] self \in {"Script", "VmadHandlerPERK"} ->
         AVariableContainer_dump_data(self, record, st)
    [] self = "VmadHandlerQUST" -> VmadHandlerQUST_dump_data(record, st)
    [] self = "VmadHandlerSCEN" -> VmadHandlerSCEN_dump_data(record, st)

\* ------------------------------------------------------------------------
\* MelVmad.dumpData
\* ------------------------------------------------------------------------
\* MelVmad.dumpData(record, out) for a record whose vmdata is not None: the
\* state after the call, vmdata as the dump leaves it and the payload
\* handed to out.packSub.
MelVmad_dumpData(recType, vmad, st) ==
  IF ~HasAttr(vmad, "scripts")
    THEN [st |-> Raise(st, "AttributeError"), rec |-> vmad, out |-> <<>>]
  ELSE The({IF ~Ok(sc.st)
              THEN [st |-> sc.st, rec |-> SetAttr(vmad, "scripts", sc.rec),
                    out |-> sc.out]
            ELSE IF ~HasAttr(vmad, "special_data")
              THEN [st |-> Raise(sc.st, "AttributeError"),
                    rec |-> SetAttr(vmad, "scripts", sc.rec), out |-> sc.out]
            ELSE IF vmad.special_data # None /\ recType \in handler_map_keys
              THEN The({[st |-> sp.st,
                         rec |-> SetAttr(SetAttr(vmad, "scripts", sc.rec),
                                         "special_data", sp.rec),
                         out |-> sc.out \o sp.out] :
                          sp \in {dump_data(handler_class(recType),
                                            vmad.special_data, sc.st)}})
              ELSE [st |-> sc.st, rec |-> SetAttr(vmad, "scripts", sc.rec),
                    out |-> sc.out] :
              sc \in {The({dump_children("Script", vmad.scripts,
                             LogCount(st, "scripts", n, vmad.scripts), <<>>,
                             struct_pack("h", 5) \o struct_pack("h", 2)
                             \o n) :
                             n \in {struct_pack("H", Len(vmad.scripts))}})}})

\* ------------------------------------------------------------------------
\* Mapping form ids
\* ------------------------------------------------------------------------
\* The mapping functions a caller hands to mapFids: the next form id, and
\* form id 0 for everything.
MapFunctions == {"succ", "zero"}

Call(map_function, fid) == IF map_function = "succ" THEN fid + 1 ELSE 0

\* (An ObjectRef.map_fids that stores the result whatever save says.)
ObjectRef_map_fids_always_saves(self, map_function, save, calls) ==
  [calls |-> Append(calls, self.fid),
   val |-> [self EXCEPT !.fid = Call(map_function, self.fid)]]

\* A map_fids returns the form ids the mapping function was called with so
\* far, in order, and the object as the call left it.
\* ObjectRef.map_fids: the function is called on the fid; the result is
\* stored only if save is set.
ObjectRef_map_fids(self, map_function, save, calls) ==
  [calls |-> Append(calls, self.fid),
   val |-> IF save THEN [self EXCEPT !.fid = Call(map_function, self.fid)]
           ELSE self]

RECURSIVE map_fids(_, _, _, _, _)

\* for child in children: map_child(child, map_function, save)
RECURSIVE map_children(_, _, _, _, _, _)
map_children(child_cls, children, done, map_function, save, calls) ==
  IF children = <<>> THEN [calls |-> calls, val |-> done]
  ELSE The({map_children(child_cls, Tail(children), Append(done, r.val),
                         map_function, save, r.calls) :
              r \in {IF child_cls = "ObjectRef"
                       THEN ObjectRef_map_fids(Head(children), map_function,
                                               save, calls)
                       ELSE map_fids(child_cls, Head(children), map_function,
                                     save, calls)}})

\* (A Property.map_fids that leaves object arrays alone.)
Property_map_fids_no_arrays(record, map_function, save, calls) ==
  IF record.prop_type.v = 1
    THEN The({[calls |-> r.calls, val |-> SetAttr(record, "prop_data", r.val)] :
                r \in {ObjectRef_map_fids(record.prop_data, map_function,
                                          save, calls)}})
    ELSE [calls |-> calls, val |-> record]

\* Property.map_fids: an object property maps its reference, an object
\* array each of its references, any other type nothing.
Property_map_fids(record, map_function, save, calls) ==
  IF record.prop_type.v = 1
    THEN The({[calls |-> r.calls, val |-> SetAttr(record, "prop_data", r.val)] :
                r \in {ObjectRef_map_fids(record.prop_data, map_function,
                                          save, calls)}})
  ELSE IF record.prop_type.v = 11
    THEN The({[calls |-> r.calls,
               val |-> SetAttr(record, "prop_data", PyList(r.val))] :
                r \in {map_children("ObjectRef", record.prop_data.v, <<>>,
                                    map_function, save, calls)}})
    ELSE [calls |-> calls, val |-> record]

\* _AVariableContainer.map_fids: every child, with the child loader.
AVariableContainer_map_fids(self, record, map_function, save, calls) ==
  The({[calls |-> r.calls, val |-> SetAttr(record, children_attr(self), r.val)] :
         r \in {map_children(child_loader(self), record[children_attr(self)],
                             <<>>, map_function, save, calls)}})

\* Alias.map_fids: the alias's own reference, then its scripts.
Alias_map_fids(record, map_function, save, calls) ==
  The({AVariableContainer_map_fids("Alias",
                                   SetAttr(record, "alias_ref_obj", r.val),
                                   map_function, save, r.calls) :
         r \in {ObjectRef_map_fids(record.alias_ref_obj, map_function, save,
                                   calls)}})

\* VmadHandlerQUST.map_fids: the aliases only, not the fragments.
VmadHandlerQUST_map_fids(record, map_function, save, calls) ==
  The({[calls |-> r.calls, val |-> SetAttr(record, "aliases", r.val)] :
         r \in {map_children("Alias", record.aliases, <<>>, map_function,
                             save, calls)}})

\* map_fids of a component class; the ones that do not override it inherit
\* _AVmadComponent.map_fids, which does nothing.
map_fids(self, record, map_function, save, calls) ==
  CASE self = "Property" -> Property_map_fids(record, map_function, save, calls)
    [] self \in {"Script", "VmadHandlerPERK"} ->
         AVariableContainer_map_fids(self, record, map_function, save, calls)
    [] self = "Alias" -> Alias_map_fids(record, map_function, save, calls)
    [] self = "VmadHandlerQUST" ->
         VmadHandlerQUST_map_fids(record, map_function, save, calls)
    [] OTHER -> [calls |-> calls, val |-> record]

\* MelVmad.mapFids: nothing for a record without VMAD; else every script,
\* then the special data with the handler of the record type.
MelVmad_mapFids(record_sig, vmad, function, save) ==
  IF vmad = None THEN [calls |-> <<>>, val |-> vmad]
  ELSE The({IF vmad.special_data # None /\ record_sig \in handler_map_keys
              THEN The({[calls |-> sp.calls,
                         val |-> SetAttr(SetAttr(vmad, "scripts", sc.val),
                                         "special_data", sp.val)] :
                          sp \in {map_fids(handler_class(record_sig),
                                           vmad.special_data, function, save,
                                           sc.calls)}})
              ELSE [calls |-> sc.calls, val |-> SetAttr(vmad, "scripts", sc.val)] :
              sc \in {map_children("Script", vmad.scripts, <<>>, function,
                                   save, <<>>)}})

\* ------------------------------------------------------------------------
\* MelBipedObjectData: the BODT and BOD2 subrecords
\* ------------------------------------------------------------------------
\* MelBipedObjectData.__init__: the element is a MelStruct that writes
\* BOD2 subrecords of two 32-bit fields, both wrapped in flags.
MelBipedObjectData_init ==
  [subType |-> "BOD2", format |-> <<"I", "I">>,
   attrs |-> <<"biped_flags", "armorFlags">>]

\* MelStruct.loadData: a subrecord of the size of the format is unpacked
\* onto the attributes, each wrapped in its flags; any other size is a hard
\* error.
MelStruct_loadData(self, record, d, st, size) ==
  IF size # FmtSize(self.format[1]) + FmtSize(self.format[2])
    THEN [st |-> Raise(st, "UnexpectedSubrecordSize"), val |-> record]
  ELSE The({IF ~Ok(r.st) THEN [st |-> r.st, val |-> record]
            ELSE [st |-> r.st,
                  val |-> SetAttr(SetAttr(record, self.attrs[1],
                                    Flags(struct_unpack(self.format[1],
                                            SubSeq(r.val, 1, 4)))),
                                  self.attrs[2],
                                  Flags(struct_unpack(self.format[2],
                                          SubSeq(r.val, 5, 8))))] :
              r \in {ins_read(d, st, size)}})

\* MelStruct.dumpData: the subrecord type of the element and the
\* attributes packed in the current layout.
MelStruct_dumpData(self, record) ==
  [type |-> self.subType,
   data |-> struct_pack(self.format[1], record[self.attrs[1]].v)
            \o struct_pack(self.format[2], record[self.attrs[2]].v)]

\* (A legacy routine that keeps bit 0, modulates_voice, of the legacy flags.)
legacy_store_bit0(record, bp_flags, legacyFlags, armorFlags) ==
  [record EXCEPT !.biped_flags = Flags(bp_flags),
                 !.flags1.isNotPlayable = Bit(legacyFlags, 0),
                 !.armorFlags = Flags(armorFlags)]

\* The end of the BODT routine: the legacy flags are discarded except for
\* non_playable (bit 4), which goes to the record's header flags.
legacy_store(record, bp_flags, legacyFlags, armorFlags) ==
  [record EXCEPT !.biped_flags = Flags(bp_flags),
                 !.flags1.isNotPlayable = Bit(legacyFlags, 4),
                 !.armorFlags = Flags(armorFlags)]

\* MelBipedObjectData.loadData: a BODT subrecord is unpacked as 'IB3s' when
\* its size is 8 (armorFlags is then 0) and as 'IB3sI' when it is 12, any
\* other size raising ModSizeError; a BOD2 subrecord is left to MelStruct.
MelBipedObjectData_loadData(record, d, st, subrecord_type, size) ==
  IF subrecord_type = "BODT"
    THEN IF size = 8
           THEN The({IF ~Ok(r.st) THEN [st |-> r.st, val |-> record]
                     ELSE [st |-> r.st,
                           val |-> legacy_store(record,
                                     struct_unpack("I", SubSeq(r.val, 1, 4)),
                                     struct_unpack("B", SubSeq(r.val, 5, 5)),
                                     0)] :
                       r \in {ins_read(d, st, size)}})
         ELSE IF size # 12
           THEN [st |-> Raise(st, "ModSizeError"), val |-> record]
           ELSE The({IF ~Ok(r.st) THEN [st |-> r.st, val |-> record]
                     ELSE [st |-> r.st,
                           val |-> legacy_store(record,
                                     struct_unpack("I", SubSeq(r.val, 1, 4)),
                                     struct_unpack("B", SubSeq(r.val, 5, 5)),
                                     struct_unpack("I", SubSeq(r.val, 9, 12)))] :
                       r \in {ins_read(d, st, size)}})
    ELSE MelStruct_loadData(MelBipedObjectData_init, record, d, st, size)

\* ------------------------------------------------------------------------
\* Subrecords on disk: the inputs of the model
\* ------------------------------------------------------------------------
\* The layouts below are the ones the decoders above read, for any version
\* and object format; they are how a plugin file stores a VMAD subrecord.
RECURSIVE Flatten(_)
Flatten(ss) == IF ss = <<>> THEN <<>> ELSE Head(ss) \o Flatten(Tail(ss))

SeqsUpTo(S, n) == UNION {[1..k -> S] : k \in 0..n}

WStr16(name) == ToLE(Len(name), 2) \o name

WHeader(vmad_version, obj_format, script_count) ==
  ToLE(vmad_version, 2) \o ToLE(obj_format, 2) \o ToLE(script_count, 2)

\* An object reference: format 1 is fid, aid, unused; every other format
\* is read as unused, aid, fid.
WObjectRef(obj_format, unused, aid, fid) ==
  IF obj_format = 1 THEN ToLE(fid, 4) \o ToLE(aid, 2) \o ToLE(unused, 2)
  ELSE ToLE(unused, 2) \o ToLE(aid, 2) \o ToLE(fid, 4)

WRefs(obj_format) ==
  {WObjectRef(obj_format, 0, -1, 20), WObjectRef(obj_format, 7, 2, 2048)}

WArrays(elems) ==
  {ToLE(Len(a), 4) \o Flatten(a) : a \in SeqsUpTo(elems, MaxArray)}

\* The payloads stored for a property type (none for an unrecognized one).
WPayloads(property_type, obj_format) ==
  CASE property_type = 1 -> WRefs(obj_format)
    [] property_type = 2 -> {WStr16(<<>>), WStr16(<<72, 128>>)}
    [] property_type = 3 -> {ToLE(7, 4), ToLE(-2, 4)}
    [] property_type = 4 -> {<<0, 0, 96, 64>>, <<1, 0, 128, 255>>}
    [] property_type = 5 -> {<<0>>, <<1>>, <<2>>}
    [] property_type = 11 -> WArrays(WRefs(obj_format))
    [] property_type = 12 -> WArrays({WStr16(<<72>>)})
    [] property_type = 13 -> WArrays({ToLE(-2, 4)})
    [] property_type = 14 -> WArrays({<<0, 0, 96, 64>>})
    [] property_type = 15 -> WArrays({<<0>>, <<2>>})
    [] OTHER -> {<<>>}

\* A property: name, type, the flags byte from version 4 on, the payload.
WProperty(vmad_version, name, property_type, prop_flags, payload) ==
  WStr16(name) \o <<property_type>>
  \o (IF vmad_version >= 4 THEN <<prop_flags>> ELSE <<>>) \o payload

WProperties(vmad_version, obj_format, types) ==
  UNION {{WProperty(vmad_version, <<80>>, ty, fl, pl) :
            fl \in {1, 3}, pl \in WPayloads(ty, obj_format)} : ty \in types}

\* A script: name, flags, property count, properties.
WScript(name, script_flags, props) ==
  WStr16(name) \o <<script_flags>> \o ToLE(Len(props), 2) \o Flatten(props)

\* A script is stored with one of a few property lists: any single property
\* of any type, or up to MaxProps of a null, an object and an unrecognized
\* (type 9) property.
WireTypes == LoadPropertyTypes \cup {9, 255}

WPropertyLists(vmad_version, obj_format) ==
  {<<p>> : p \in WProperties(vmad_version, obj_format, WireTypes)}
  \cup SeqsUpTo({WProperty(vmad_version, <<>>, 0, 1, <<>>),
                 WProperty(vmad_version, <<82>>, 1, 1,
                           WObjectRef(obj_format, 0, 3, 20)),
                 WProperty(vmad_version, <<88>>, 9, 1, <<>>)}, MaxProps)

WScripts(vmad_version, obj_format) ==
  {WScript(<<83>>, 1, props) :
     props \in WPropertyLists(vmad_version, obj_format)}

\* The few scripts that precede special data or hang off an alias.
WPlainScripts(vmad_version, obj_format) ==
  {WScript(<<>>, 0, <<>>),
   WScript(<<83>>, 2, <<WProperty(vmad_version, <<82>>, 1, 1,
                                  WObjectRef(obj_format, 0, 3, 20))>>)}

\* Fragments.
WFragmentBasic == <<1>> \o WStr16(<<83>>) \o WStr16(<<70>>)

WFragmentPERK ==
  ToLE(1, 2) \o ToLE(-1, 2) \o <<2>> \o WStr16(<<83>>) \o WStr16(<<70>>)

WFragmentQUST ==
  ToLE(10, 2) \o ToLE(0, 2) \o ToLE(1, 4) \o <<1>> \o WStr16(<<83>>)
  \o WStr16(<<70>>)

WFragmentSCENPhase(fragment_flags) ==
  <<fragment_flags, 1>> \o ToLE(0, 2) \o <<0, 0>> \o WStr16(<<83>>)
  \o WStr16(<<70>>)

RECURSIVE Repeat(_, _)
Repeat(bs, n) == IF n = 0 THEN <<>> ELSE bs \o Repeat(bs, n - 1)

PopCount(n, bits) == Cardinality({i \in 0..(bits - 1) : Bit(n, i)})

\* INFO, PACK and SCEN special data: the scalar fields with the flags byte,
\* then one fragment per flag that is set among the declared ones.
WFixed(fragment_flags, slots) ==
  <<2, fragment_flags>> \o WStr16(<<81>>)
  \o Repeat(WFragmentBasic, PopCount(fragment_flags, slots))

\* An alias: its ObjectRef in its own object format, its header, scripts.
AliasHeaders == {<<5, 2>>, <<3, 1>>, <<0, 3>>, <<6, 1>>}

WAliases ==
  UNION {{WObjectRef(h[2], 0, 4, 21) \o WHeader(h[1], h[2], Len(ss))
          \o Flatten(ss) :
            ss \in {<<>>} \cup {<<x>> : x \in WPlainScripts(h[1], h[2])}} :
         h \in AliasHeaders}

\* The alias lists stored: any one alias, or up to MaxAliases aliases that
\* hold no script.
WAliasLists ==
  {<<a>> : a \in WAliases}
  \cup SeqsUpTo({WObjectRef(2, 0, 5, 22) \o WHeader(5, 2, 0)}, MaxAliases)

\* The special data stored for a record type.
WSpecial(record_sig) ==
  CASE record_sig = "INFO" -> {WFixed(fl, 2) : fl \in {0, 1, 2, 3, 6}}
    [] record_sig = "PACK" -> {WFixed(fl, 3) : fl \in 0..7}
    [] record_sig = "SCEN" ->
         {WFixed(fl, 2) \o ToLE(n, 2) \o Repeat(WFragmentSCENPhase(1), n) :
            fl \in {0, 1, 2, 3}, n \in 0..MaxFrags}
    [] record_sig = "PERK" ->
         {<<2>> \o WStr16(<<81>>) \o ToLE(n, 2) \o Repeat(WFragmentPERK, n) :
            n \in 0..MaxFrags}
    [] record_sig = "QUST" ->
         {<<2>> \o ToLE(n, 2) \o WStr16(<<81>>) \o Repeat(WFragmentQUST, n)
          \o ToLE(Len(as), 2) \o Flatten(as) :
            n \in 0..MaxFrags, as \in WAliasLists}
    [] OTHER -> {}

\* The header versions and object formats stored.
HeaderVersions == {-1, 0, 1, 2, 3, 4, 5, 6}
HeaderFormats == {0, 1, 2, 3}

\* A subrecord as the reader meets it: the record type, the stream with
\* the cursor at its start, and the size its header declares.
Input(record_sig, data, declared) ==
  [recType |-> record_sig, ins |-> data, size_ |-> declared]

\* Bare headers, with every version and format, whole or cut short.
HeaderInputs ==
  {Input(sig, WHeader(v, f, 0), 6) :
     sig \in {"ACTI", "QUST"}, v \in HeaderVersions, f \in HeaderFormats}
  \cup {Input("ACTI", SubSeq(WHeader(5, 2, 0), 1, 4), 4)}

\* Scripts and properties of every kind, under both property layouts and
\* both object formats, in a record type without special data.
ScriptInputs ==
  UNION {{Input("ACTI", WHeader(v, f, Len(ss)) \o Flatten(ss),
                6 + Len(Flatten(ss))) :
            ss \in {<<x>> : x \in WScripts(v, f)}
                   \cup SeqsUpTo(WPlainScripts(v, f), MaxScripts)} :
         <<v, f>> \in ({3, 4} \X {1, 2}) \cup {<<5, 2>>}}
  \cup {Input("ACTI",
               WHeader(5, 2, 1)
               \o WScript(<<70, 111, 111>>, 0,
                          <<WProperty(5, <<66, 97, 114>>, 4, 1,
                                      <<0, 0, 96, 64>>)>>), 25)}
  \cup {Input("ACTI", WHeader(v, 2, 1) \o Flatten(<<s>>), 6 + Len(s)) :
          v \in {0, 6}, s \in WPlainScripts(5, 2)}
  \cup {Input("ACTI", WHeader(5, f, 1) \o Flatten(<<s>>), 6 + Len(s)) :
          f \in {0, 3}, s \in WPlainScripts(5, 2)}

\* Special data after zero or one script: stored for the record's own type
\* (declared in full, or with the subrecord declared to end where the
\* scripts end), or met by a record type that has no handler.
SpecialInputs ==
  UNION {UNION {{Input(sig, WHeader(h[1], h[2], Len(ss)) \o Flatten(ss) \o sp,
                       declared) :
                   declared \in {6 + Len(Flatten(ss)),
                                 6 + Len(Flatten(ss)) + Len(sp)},
                   sig \in {sig0, "ACTI"}} :
                 sp \in WSpecial(sig0),
                 ss \in SeqsUpTo(WPlainScripts(h[1], h[2]), 1)} :
         sig0 \in handler_map_keys, h \in {<<5, 2>>, <<3, 1>>}}

Inputs == HeaderInputs \cup ScriptInputs \cup SpecialInputs

\* ------------------------------------------------------------------------
\* State
\* ------------------------------------------------------------------------
VARIABLES
  recType,   \* record.recType, the signature of the owning record
  ins,       \* the bytes of the input stream
  pos,       \* ins.tell()
  start,     \* the cursor when loadData was entered
  size_,     \* the size the subrecord declares
  vmdata,    \* record.vmdata
  before,    \* record.vmdata when loadData was entered
  loaded,    \* how the last loadData ended: "none" (not called), "ok", or
             \* the exception it raised
  log,       \* the decode steps of the last loadData
  cls,       \* Property.processors and Alias.processors
  handler_map,  \* MelVmad._handler_map: per signature the handler class
                \* and, once it was instantiated, which instance it holds
  lookups,   \* what each call of _get_special_handler was asked and got
  out,       \* the payload the last dumpData handed to out.packSub
  dumped,    \* how the last dumpData ended: "none", "ok", "skipped" (vmdata
             \* is None) or the exception it raised
  dlog,      \* the encode steps of the last dumpData
  saved,     \* record.vmdata as the dumpData that produced out left it
  patched,   \* whether the tree was changed between decode and encode
  cycle,     \* how many times the dumped payload was read back
  vmad_version,  \* the version and object format a Property is loaded
  obj_format,    \* under when Property.load_data is called by itself
  prop,      \* the Property record that load was called on
  made,      \* a Property record built in memory, not loaded
  made_dumped,   \* how Property.dump_data(made) ended
  made_out,  \* the bytes Property.dump_data(made) returned
  mapped,    \* how mapFids was called: "none" (not called), "query"
             \* (save=False) or "save" (save=True)
  function_, \* the mapping function mapFids was called with
  calls,     \* the form ids the mapping function was called with, in order
  unmapped,  \* record.vmdata and patched when mapFids was entered
  sub_type,  \* the type of a biped subrecord met in a record: BODT or BOD2
  biped,     \* the record that subrecord is loaded onto: biped_flags,
             \* armorFlags and the header's flags1
  entered,   \* that record when MelBipedObjectData.loadData was entered
  out_type,  \* the subrecord type the record's biped data was written as
  subrecords,  \* the XWCS, XWCN and XWCU subrecords of a record, in the
               \* order the stream holds them
  consumed,  \* how many of them the record's loader has dispatched
  water,     \* the record they are loaded onto: water_velocities_count
             \* and water_velocities
  written,   \* the subrecords MelWaterVelocities.dumpData wrote, in order
  water_dumped,  \* whether that dumpData was called
  debr,      \* the model of a DEBR record a DATA subrecord is loaded
             \* onto: percentage, modPath and flags
  gui_patchers,  \* PatchDialog._gui_patchers: the isEnabled of each
  gPatchers,     \* the checkmarks of the dialog's checklist, one a patcher
  currentPatcher,   \* the index of the patcher whose panel is shown
  gExecute,  \* the Build Patch button: enabled
  save_pc,   \* where PatchDialog._save_pbash is: "safeSave", "_pretry",
             \* "returned" or "raised"
  save_result,   \* how the last patchFile.safeSave() ended: saved, or the
             \* exception it raised
  raising,   \* the exception that leaves _save_pbash
  safeSaves, \* the number of safeSave calls made
  prompts,   \* the number of retry prompts shown
  answer,    \* the user's last answer to the prompt
  gmst_records,  \* the GMST records the tweak is shown: fid, eid, value
  eid_was_itpo,  \* GmstTweak._eid_was_itpo: lower-case EDID -> bool
  new_gmsts, \* the patch_file.new_gmst(eid, value) calls made
  gmst_pc,   \* "tweaking" until finish_tweaking has run, then "finished"
  tweaked_eids,  \* history: the lower-case EDIDs tweak_record was called for
  last_check \* history: lower-case EDID -> what the last wants_record of a
             \* record from a vanilla data file returned

\* The state of a Property handled by itself.
propvars == <<vmad_version, obj_format, prop, made, made_dumped, made_out>>

\* The state of a record with its VMAD subrecord, less what the two share.
\* The state of a call of mapFids.
mapvars == <<mapped, function_, calls, unmapped>>

\* The state of a BODT or BOD2 subrecord handled by itself.
bodvars == <<sub_type, biped, entered, out_type>>

\* The state of the XWCS/XWCN/XWCU subrecords of a record.
watervars == <<subrecords, consumed, water, written, water_dumped>>

WaterIdle ==
  /\ subrecords = <<>>
  /\ consumed = 0
  /\ water = None
  /\ written = <<>>
  /\ water_dumped = FALSE

\* The state of the codecs and handlers that are not part of VMAD or of the
\* biped data, none of them entered.
\* The state of a DEBR record's DATA subrecord.
debrvars == <<debr>>

DebrIdle == debr = None

\* The state of the patcher dialog; idle, no dialog is open.
dialogvars == <<gui_patchers, gPatchers, currentPatcher, gExecute>>

DialogIdle ==
  /\ gui_patchers = <<>>
  /\ gPatchers = <<>>
  /\ currentPatcher = None
  /\ gExecute = None

\* The state of a save of the patch; idle, none is under way.
savevars == <<save_pc, save_result, raising, safeSaves, prompts, answer>>

SaveIdle ==
  /\ save_pc = "idle"
  /\ save_result = None
  /\ raising = None
  /\ safeSaves = 0
  /\ prompts = 0
  /\ answer = None

\* The state of a GMST tweak; idle, there is no tweak.
gmstvars == <<gmst_records, eid_was_itpo, new_gmsts, gmst_pc, tweaked_eids, last_check>>

GmstIdle ==
  /\ gmst_records = <<>>
  /\ eid_was_itpo = <<>>
  /\ new_gmsts = {}
  /\ gmst_pc = "idle"
  /\ tweaked_eids = {}
  /\ last_check = <<>>

extvars == <<watervars, debrvars, dialogvars, savevars, gmstvars>>

ExtIdle == WaterIdle /\ DebrIdle /\ DialogIdle /\ SaveIdle /\ GmstIdle

recvars ==
  <<recType, start, size_, vmdata, before, handler_map, lookups, saved,
    patched, cycle,
    mapped, function_, calls, unmapped, sub_type, biped, entered, out_type,
    extvars>>

\* The state of a record with its VMAD subrecord, of a Property and of a
\* biped subrecord.
corevars ==
  <<recType, ins, pos, start, size_, vmdata, before, loaded, log, cls,
    handler_map, lookups, out, dumped, dlog, saved, patched, cycle,
    vmad_version,
    obj_format, prop, made, made_dumped, made_out, mapped, function_, calls,
    unmapped, sub_type, biped, entered, out_type>>

vars == <<corevars, extvars>>

\* A reader or writer state at the cursor, with nothing raised or logged.
St(at, class_attrs) ==
  [pos |-> at, err |-> "none", cls |-> class_attrs, log |-> <<>>]

Steps(l, step) == {i \in 1..Len(l) : l[i].step = step}

Init ==
  /\ \E inp \in Inputs :
       /\ recType = inp.recType
       /\ ins = inp.ins
       /\ size_ = inp.size_
  /\ pos = 0
  /\ start = 0
  /\ vmdata = None
  /\ before = None
  /\ loaded = "none"
  /\ log = <<>>
  /\ cls = ClassAttrs0
  /\ handler_map = [sig \in handler_map_keys |->
                      [cls |-> handler_class(sig), instance |-> 0]]
  /\ lookups = <<>>
  /\ out = <<>>
  /\ dumped = "none"
  /\ dlog = <<>>
  /\ saved = None
  /\ patched = FALSE
  /\ cycle = 0
  /\ vmad_version = 0
  /\ obj_format = 0
  /\ prop = None
  /\ made = None
  /\ made_dumped = "none"
  /\ made_out = <<>>
  /\ mapped = "none"
  /\ function_ = "succ"
  /\ calls = <<>>
  /\ unmapped = None
  /\ sub_type = "BOD2"
  /\ biped = None
  /\ entered = None
  /\ out_type = "none"
  /\ ExtIdle

\* The record's VMAD subrecord is loaded: MelVmad.loadData.
LoadData ==
  /\ loaded = "none"
  /\ \E r \in {MelVmad_loadData(recType, ins, St(pos, cls), size_)} :
       /\ vmdata' = r.val
       /\ pos' = r.st.pos
       /\ loaded' = IF Ok(r.st) THEN "ok" ELSE r.st.err
       /\ log' = r.st.log
       /\ cls' = r.st.cls
       /\ IF Steps(r.st.log, "Handler") # {}
            THEN \E h \in {get_special_handler(handler_map, recType,
                                                Len(lookups) + 1)} :
                   /\ handler_map' = h.table
                   /\ lookups' = Append(lookups, [sig |-> recType,
                                                  got |-> h.handler])
            ELSE UNCHANGED <<handler_map, lookups>>
  /\ start' = pos
  /\ before' = vmdata
  /\ UNCHANGED <<recType, ins, size_, out, dumped, dlog, saved, patched, cycle>>
  /\ UNCHANGED propvars
  /\ UNCHANGED mapvars
  /\ UNCHANGED bodvars
  /\ UNCHANGED extvars

\* The record is written: MelVmad.dumpData.
DumpData ==
  /\ loaded = "ok"
  /\ dumped = "none"
  /\ \E r \in {MelVmad_dumpData(recType, vmdata, St(0, cls))} :
       /\ vmdata' = r.rec
       /\ dumped' = IF Ok(r.st) THEN "ok" ELSE r.st.err
       /\ out' = IF Ok(r.st) THEN r.out ELSE out
       /\ saved' = IF Ok(r.st) THEN r.rec ELSE saved
       /\ dlog' = r.st.log
       /\ cls' = r.st.cls
       /\ IF vmdata.special_data # None /\ recType \in handler_map_keys
            THEN \E h \in {get_special_handler(handler_map, recType,
                                                Len(lookups) + 1)} :
                   /\ handler_map' = h.table
                   /\ lookups' = Append(lookups, [sig |-> recType,
                                                  got |-> h.handler])
            ELSE UNCHANGED <<handler_map, lookups>>
  /\ UNCHANGED <<recType, ins, pos, start, size_, before, loaded, log,
                 patched, cycle>>
  /\ UNCHANGED propvars
  /\ UNCHANGED mapvars
  /\ UNCHANGED bodvars
  /\ UNCHANGED extvars

\* A record that has no VMAD subrecord is written: dumpData returns at once.
DumpNone ==
  /\ loaded = "none"
  /\ dumped = "none"
  /\ vmdata = None
  /\ dumped' = "skipped"
  /\ UNCHANGED <<recType, ins, pos, start, size_, vmdata, before, loaded,
                 log, cls, handler_map, lookups, out, saved, dlog, patched,
                 cycle>>
  /\ UNCHANGED propvars
  /\ UNCHANGED mapvars
  /\ UNCHANGED bodvars
  /\ UNCHANGED extvars

\* The written plugin is read again: a new record of the same type meets
\* the payload that dumpData produced.
Reload ==
  /\ dumped = "ok"
  /\ cycle < MaxCycles
  /\ mapped = "none"
  /\ ins' = out
  /\ pos' = 0
  /\ start' = 0
  /\ size_' = Len(out)
  /\ vmdata' = None
  /\ before' = None
  /\ loaded' = "none"
  /\ log' = <<>>
  /\ dumped' = "none"
  /\ dlog' = <<>>
  /\ cycle' = cycle + 1
  /\ UNCHANGED <<recType, cls, handler_map, lookups, out, saved, patched>>
  /\ UNCHANGED propvars
  /\ UNCHANGED mapvars
  /\ UNCHANGED bodvars
  /\ UNCHANGED extvars

\* ------------------------------------------------------------------------
\* Changes between decode and encode
\* ------------------------------------------------------------------------
\* Patchers change the decoded tree in place: they add and remove scripts,
\* properties, array elements, fragments and aliases, and they do not touch
\* the stored counts or flags, which are "updated before writing".
NewProperty ==
  [cls |-> "Property", prop_name |-> PyStr(<<78>>), prop_type |-> PyInt(3),
   prop_flags |-> Flags(1), prop_data |-> PyInt(5)]

NewScript ==
  [cls |-> "Script", script_name |-> PyStr(<<78>>), script_flags |-> Flags(0),
   property_count |-> PyInt(0), properties |-> <<NewProperty>>]

NewFragment(self) ==
  CASE self = "FragmentBasic" ->
         [cls |-> self, unknown1 |-> PyInt(1), script_name |-> PyStr(<<78>>),
          fragment_name |-> PyStr(<<>>)]
    [] self = "FragmentPERK" ->
         [cls |-> self, fragment_index |-> PyInt(3), unknown1 |-> PyInt(0),
          unknown2 |-> PyInt(0), script_name |-> PyStr(<<78>>),
          fragment_name |-> PyStr(<<>>)]
    [] self = "FragmentQUST" ->
         [cls |-> self, quest_stage |-> PyInt(20), unknown1 |-> PyInt(0),
          quest_stage_index |-> PyInt(0), unknown2 |-> PyInt(0),
          script_name |-> PyStr(<<78>>), fragment_name |-> PyStr(<<>>)]
    [] self = "FragmentSCENPhase" ->
         [cls |-> self, fragment_flags |-> PyInt(1), phase_index |-> PyInt(0),
          unknown1 |-> PyInt(0), unknown2 |-> PyInt(0), unknown3 |-> PyInt(0),
          script_name |-> PyStr(<<78>>), fragment_name |-> PyStr(<<>>)]

NewAlias ==
  [cls |-> "Alias", alias_ref_obj |-> ObjectRef(1, 30),
   alias_vmad_version |-> PyInt(3), alias_obj_format |-> PyInt(1),
   script_count |-> PyInt(0), scripts |-> <<NewScript>>]

\* A list with an element added, and with its last element removed.
ListEdits(l, new) ==
  {Append(l, new)} \cup (IF l = <<>> THEN {} ELSE {SubSeq(l, 1, Len(l) - 1)})

\* The trees one change away from vmad.
ScriptPatches(vmad) ==
  {[vmad EXCEPT !.scripts = l] : l \in ListEdits(vmad.scripts, NewScript)}
  \cup (IF vmad.scripts = <<>> THEN {}
        ELSE {[vmad EXCEPT !.scripts[1].properties = l] :
                l \in ListEdits(vmad.scripts[1].properties, NewProperty)})

ArrayPatches(vmad) ==
  IF vmad.scripts = <<>> THEN {}
  ELSE IF vmad.scripts[1].properties = <<>> THEN {}
  ELSE LET p == vmad.scripts[1].properties[1]
       IN IF p.prop_type.v \notin {11, 12, 13, 14, 15} THEN {}
          ELSE IF p.prop_data.v = <<>> THEN {}
          ELSE {[vmad EXCEPT !.scripts[1].properties[1].prop_data.v = l] :
                  l \in ListEdits(p.prop_data.v, p.prop_data.v[1])}

SpecialPatches(vmad) ==
  LET sd == vmad.special_data
  IN IF sd = None THEN {}
     ELSE
       (IF sd.cls \in {"VmadHandlerINFO", "VmadHandlerPACK", "VmadHandlerSCEN"}
          THEN {[vmad EXCEPT !.special_data[slot[2]] =
                   IF @ = None THEN NewFragment("FragmentBasic") ELSE None] :
                  slot \in {flags_to_children(sd.cls)[i] :
                              i \in 1..Len(flags_to_children(sd.cls))}}
          ELSE {[vmad EXCEPT !.special_data.fragments = l] :
                  l \in ListEdits(sd.fragments,
                                  NewFragment(child_loader(sd.cls)))})
       \cup (IF sd.cls = "VmadHandlerSCEN"
               THEN {[vmad EXCEPT !.special_data.phase_fragments = l] :
                       l \in ListEdits(sd.phase_fragments,
                                       NewFragment("FragmentSCENPhase"))}
               ELSE {})
       \cup (IF sd.cls = "VmadHandlerQUST"
               THEN {[vmad EXCEPT !.special_data.aliases = l] :
                       l \in ListEdits(sd.aliases, NewAlias)}
                    \cup (IF sd.aliases = <<>> THEN {}
                          ELSE {[vmad EXCEPT
                                   !.special_data.aliases[1].scripts = l] :
                                  l \in ListEdits(sd.aliases[1].scripts,
                                                  NewScript)})
               ELSE {})

Patches(vmad) ==
  ScriptPatches(vmad) \cup ArrayPatches(vmad) \cup SpecialPatches(vmad)

\* A patcher changes the loaded tree once before the record is written.
Patch ==
  /\ loaded = "ok"
  /\ dumped = "none"
  /\ ~patched
  /\ cycle = 0
  /\ mapped = "none"
  /\ \E v \in Patches(vmdata) : vmdata' = v
  /\ patched' = TRUE
  /\ UNCHANGED <<recType, ins, pos, start, size_, before, loaded, log, cls,
                 handler_map, lookups, out, dumped, dlog, saved, cycle>>
  /\ UNCHANGED propvars
  /\ UNCHANGED mapvars
  /\ UNCHANGED bodvars
  /\ UNCHANGED extvars

\* A patcher maps the form ids of the record: MelVmad.mapFids, with one of
\* the mapping functions, in query or in save mode.
MapFids ==
  /\ mapped = "none"
  /\ loaded \in {"none", "ok"}
  /\ dumped = "none"
  /\ cycle = 0
  /\ \E function \in MapFunctions, save \in BOOLEAN :
       /\ function_' = function
       /\ mapped' = IF save THEN "save" ELSE "query"
       /\ \E r \in {MelVmad_mapFids(recType, vmdata, function, save)} :
            /\ vmdata' = r.val
            /\ calls' = r.calls
  /\ unmapped' = [tree |-> vmdata, patched |-> patched]
  /\ IF vmdata # None /\ vmdata.special_data # None
        /\ recType \in handler_map_keys
       THEN \E h \in {get_special_handler(handler_map, recType,
                                           Len(lookups) + 1)} :
              /\ handler_map' = h.table
              /\ lookups' = Append(lookups, [sig |-> recType,
                                             got |-> h.handler])
       ELSE UNCHANGED <<handler_map, lookups>>
  /\ UNCHANGED <<recType, ins, pos, start, size_, before, loaded, log, cls,
                 out, dumped, dlog, saved, patched, cycle>>
  /\ UNCHANGED propvars
  /\ UNCHANGED bodvars
  /\ UNCHANGED extvars

Next == LoadData \/ Patch \/ DumpData \/ DumpNone \/ Reload \/ MapFids

Spec == Init /\ [][Next]_vars

\* ------------------------------------------------------------------------
\* A Property by itself: Property.load_data and Property.dump_data
\* ------------------------------------------------------------------------
\* The type tags a stored property can carry: every value of its byte.
PropertyTags == 0..255

\* The versions and object formats a Property is loaded under: both
\* property layouts, both reference layouts.
PropertyVersions == {3, 4}
PropertyFormats == {1, 2}

\* The payloads a Property built in memory holds, by its type (a payload
\* of some kind for a type that has none).
MadePayloads(property_type) ==
  CASE property_type = 0 -> {None}
    [] property_type = 1 -> {ObjectRef(2, 2048)}
    [] property_type = 2 -> {PyStr(<<>>), PyStr(<<72, 8364>>)}
    [] property_type = 3 -> {PyInt(-2)}
    [] property_type = 4 -> {PyFloat(1080033280)}
    [] property_type = 5 -> {PyBool(FALSE), PyBool(TRUE)}
    [] property_type = 11 ->
         {PyList(l) : l \in SeqsUpTo({ObjectRef(-1, 20)}, MaxArray)}
    [] property_type = 12 ->
         {PyList(l) : l \in SeqsUpTo({PyStr(<<72>>)}, MaxArray)}
    [] property_type = 13 ->
         {PyList(l) : l \in SeqsUpTo({PyInt(7)}, MaxArray)}
    [] property_type = 14 ->
         {PyList(l) : l \in SeqsUpTo({PyFloat(1080033280)}, MaxArray)}
    [] property_type = 15 ->
         {PyList(l) : l \in SeqsUpTo({PyBool(TRUE)}, MaxArray)}
    [] OTHER -> {PyInt(0)}

MadeProperty(property_type, property_data) ==
  [cls |-> "Property", prop_name |-> PyStr(<<80>>),
   prop_type |-> PyInt(property_type), prop_flags |-> Flags(1),
   prop_data |-> property_data]

\* A stored property of any type tag lies under the cursor, and a property
\* of the same type has been built in memory.
InitProp ==
  /\ \E ty \in PropertyTags, v \in PropertyVersions, f \in PropertyFormats :
       /\ vmad_version = v
       /\ obj_format = f
       /\ \E pl \in WPayloads(ty, f), fl \in {0, 1, 3} :
            ins = WProperty(v, <<80>>, ty, fl, pl)
       /\ \E pd \in MadePayloads(ty) : made = MadeProperty(ty, pd)
  /\ pos = 0
  /\ prop = None
  /\ loaded = "none"
  /\ log = <<>>
  /\ cls = ClassAttrs0
  /\ out = <<>>
  /\ dumped = "none"
  /\ dlog = <<>>
  /\ made_dumped = "none"
  /\ made_out = <<>>
  /\ recType = "ACTI"
  /\ start = 0
  /\ size_ = 0
  /\ vmdata = None
  /\ before = None
  /\ handler_map = [sig \in handler_map_keys |->
                      [cls |-> handler_class(sig), instance |-> 0]]
  /\ lookups = <<>>
  /\ saved = None
  /\ patched = FALSE
  /\ cycle = 0
  /\ mapped = "none"
  /\ function_ = "succ"
  /\ calls = <<>>
  /\ unmapped = None
  /\ sub_type = "BOD2"
  /\ biped = None
  /\ entered = None
  /\ out_type = "none"
  /\ ExtIdle

\* Property.load_data on a new record.
PropLoad ==
  /\ loaded = "none"
  /\ \E r \in {Property_load_data(make_new("Property"), ins, St(pos, cls),
                                  vmad_version, obj_format)} :
       /\ prop' = r.val
       /\ pos' = r.st.pos
       /\ loaded' = IF Ok(r.st) THEN "ok" ELSE r.st.err
       /\ log' = r.st.log
       /\ cls' = r.st.cls
  /\ UNCHANGED <<ins, out, dumped, dlog, vmad_version, obj_format, made,
                 made_dumped, made_out>>
  /\ UNCHANGED recvars

\* Property.dump_data on the record that load_data filled (in part, when
\* load_data raised).
PropDump ==
  /\ loaded # "none"
  /\ dumped = "none"
  /\ \E r \in {Property_dump_data(prop, St(0, cls))} :
       /\ dumped' = IF Ok(r.st) THEN "ok" ELSE r.st.err
       /\ out' = r.out
       /\ dlog' = r.st.log
       /\ cls' = r.st.cls
  /\ UNCHANGED <<ins, pos, loaded, log, prop, vmad_version, obj_format, made,
                 made_dumped, made_out>>
  /\ UNCHANGED recvars

\* Property.dump_data on the record built in memory.
MadeDump ==
  /\ made_dumped = "none"
  /\ \E r \in {Property_dump_data(made, St(0, cls))} :
       /\ made_dumped' = IF Ok(r.st) THEN "ok" ELSE r.st.err
       /\ made_out' = r.out
       /\ cls' = r.st.cls
  /\ UNCHANGED <<ins, pos, loaded, log, prop, out, dumped, dlog,
                 vmad_version, obj_format, made>>
  /\ UNCHANGED recvars

NextProp == PropLoad \/ PropDump \/ MadeDump

SpecProp == InitProp /\ [][NextProp]_vars

\* ------------------------------------------------------------------------
\* A BODT or BOD2 subrecord by itself
\* ------------------------------------------------------------------------
\* The payloads stored: the legacy layout without and with the armor type,
\* and payloads of sizes no layout has. The stream may end before the
\* declared size.
WBiped ==
  {bp \o <<legacy>> \o unused \o armor :
     bp \in {<<0, 0, 0, 0>>, <<4, 2, 0, 0>>},
     legacy \in {0, 1, 16, 239, 255},
     unused \in {<<0, 0, 0>>, <<9, 8, 7>>},
     armor \in {<<>>, ToLE(0, 4), ToLE(2, 4), ToLE(9, 4)}}
  \cup {Repeat(<<16>>, n) : n \in {0, 4, 7, 9, 11, 13, 16}}

InitBiped ==
  /\ sub_type \in {"BODT", "BOD2"}
  /\ \E data \in WBiped :
       /\ size_ = Len(data)
       /\ ins \in {data, SubSeq(data, 1, Len(data) - 1)}
  /\ \E b \in BOOLEAN :
       biped = [biped_flags |-> Flags(0), armorFlags |-> Flags(0),
                flags1 |-> [isNotPlayable |-> b, other |-> 5]]
  /\ entered = None
  /\ out_type = "none"
  /\ pos = 0
  /\ loaded = "none"
  /\ out = <<>>
  /\ dumped = "none"
  /\ recType = "ARMO"
  /\ start = 0
  /\ vmdata = None
  /\ before = None
  /\ log = <<>>
  /\ cls = ClassAttrs0
  /\ dlog = <<>>
  /\ handler_map = [sig \in handler_map_keys |->
                      [cls |-> handler_class(sig), instance |-> 0]]
  /\ lookups = <<>>
  /\ saved = None
  /\ patched = FALSE
  /\ cycle = 0
  /\ vmad_version = 0
  /\ obj_format = 0
  /\ prop = None
  /\ made = None
  /\ made_dumped = "none"
  /\ made_out = <<>>
  /\ mapped = "none"
  /\ function_ = "succ"
  /\ calls = <<>>
  /\ unmapped = None
  /\ ExtIdle

\* What the steps of a BODT/BOD2 subrecord leave alone.
bipedframe ==
  <<recType, start, vmdata, before, log, cls, handler_map, lookups, dlog,
    saved, patched, cycle, vmad_version, obj_format, prop, made, made_dumped,
    made_out, mapped, function_, calls, unmapped, extvars>>

\* The subrecord is loaded: MelBipedObjectData.loadData.
BipedLoad ==
  /\ loaded = "none"
  /\ \E r \in {MelBipedObjectData_loadData(biped, ins, St(pos, cls),
                                           sub_type, size_)} :
       /\ biped' = r.val
       /\ pos' = r.st.pos
       /\ loaded' = IF Ok(r.st) THEN "ok" ELSE r.st.err
  /\ entered' = biped
  /\ UNCHANGED <<ins, size_, sub_type, out, out_type, dumped>>
  /\ UNCHANGED bipedframe

\* The record is written: MelStruct.dumpData of the element.
BipedDump ==
  /\ loaded = "ok"
  /\ dumped = "none"
  /\ \E r \in {MelStruct_dumpData(MelBipedObjectData_init, biped)} :
       /\ out_type' = r.type
       /\ out' = r.data
  /\ dumped' = "ok"
  /\ UNCHANGED <<ins, pos, size_, sub_type, biped, entered, loaded>>
  /\ UNCHANGED bipedframe

NextBiped == BipedLoad \/ BipedDump

SpecBiped == InitBiped /\ [][NextBiped]_vars

\* ------------------------------------------------------------------------
\* The other codecs and the patcher dialog start from a record whose VMAD
\* and biped subrecords are not touched
\* ------------------------------------------------------------------------
TreeIdle ==
  /\ start = 0
  /\ vmdata = None
  /\ before = None
  /\ log = <<>>
  /\ cls = ClassAttrs0
  /\ handler_map = [sig \in handler_map_keys |->
                      [cls |-> handler_class(sig), instance |-> 0]]
  /\ lookups = <<>>
  /\ dlog = <<>>
  /\ saved = None
  /\ patched = FALSE
  /\ cycle = 0
  /\ vmad_version = 0
  /\ obj_format = 0
  /\ prop = None
  /\ made = None
  /\ made_dumped = "none"
  /\ made_out = <<>>
  /\ mapped = "none"
  /\ function_ = "succ"
  /\ calls = <<>>
  /\ unmapped = None
  /\ sub_type = "BOD2"
  /\ biped = None
  /\ entered = None
  /\ out_type = "none"

\* What holds the tree, the properties and the biped data of a record.
treevars ==
  <<start, vmdata, before, log, cls, handler_map, lookups, dlog, saved,
    patched, cycle, vmad_version, obj_format, prop, made, made_dumped,
    made_out, mapped, function_, calls, unmapped, sub_type, biped, entered,
    out_type>>

CoreIdle ==
  /\ recType = "CELL"
  /\ ins = <<>>
  /\ pos = 0
  /\ size_ = 0
  /\ loaded = "none"
  /\ out = <<>>
  /\ dumped = "none"
  /\ TreeIdle

\* ------------------------------------------------------------------------
\* MelWaterVelocities: the XWCS, XWCN and XWCU subrecords of REFR and CELL
\* ------------------------------------------------------------------------
\* The elements MelWaterVelocities.__init__ hands to MelSequential, in
\* order: the wrapper, the subrecord it is registered for, the attribute it
\* loads into and, for the counter, the attribute it counts.
MelWaterVelocities_init ==
  <<[wrapper |-> "MelReadOnly", sig |-> "XWCS",
     attr |-> "water_velocities_count", counts |-> ""],
    [wrapper |-> "MelCounter", sig |-> "XWCN",
     attr |-> "water_velocities_count", counts |-> "water_velocities"],
    [wrapper |-> "MelArray", sig |-> "XWCU",
     attr |-> "water_velocities", counts |-> ""]>>

\* The record's loader hands a subrecord to the element registered for its
\* type, which stores the decoded value in its attribute. MelReadOnly and
\* MelCounter load as the element they wrap.
MelSequential_loadData(elements, record, sub) ==
  The({[record EXCEPT ![e.attr] = sub.val] :
         e \in {elements[i] : i \in {j \in DOMAIN elements :
                                       elements[j].sig = sub.sig}}})

\* What each element writes, given the record as the elements before it
\* left it: MelReadOnly writes nothing, MelCounter sets its counter to the
\* length of the counted list and writes it, MelArray writes the list when
\* it is not empty.
MelCounter_dumpData(e, record) ==
  The({[record |-> [record EXCEPT ![e.attr] = PyInt(n)],
        wrote |-> <<[sig |-> e.sig, val |-> PyInt(n)]>>] :
         n \in {Len(record[e.counts].v)}})

Mel_dumpData(e, record) ==
  CASE e.wrapper = "MelReadOnly" -> [record |-> record, wrote |-> <<>>]
    [] e.wrapper = "MelCounter" -> MelCounter_dumpData(e, record)
    [] e.wrapper = "MelArray" ->
         [record |-> record,
          wrote |-> IF record[e.attr].v = <<>> THEN <<>>
                    ELSE <<[sig |-> e.sig, val |-> record[e.attr]]>>]

\* MelSequential.dumpData: every element in order.
RECURSIVE MelSequential_dumpData(_, _, _)
MelSequential_dumpData(elements, record, wrote) ==
  IF elements = <<>> THEN [record |-> record, wrote |-> wrote]
  ELSE The({MelSequential_dumpData(Tail(elements), r.record,
                                   wrote \o r.wrote) :
              r \in {Mel_dumpData(Head(elements), record)}})

\* The velocities an XWCU subrecord holds: x_offset, y_offset, z_offset and
\* unknown1 of each.
Velocities == {<<1, 0, 0, 0>>, <<0, 2, 0, 9>>}

\* The subrecords a record may hold: a legacy counter, a counter and an
\* array, each at most once, in any order, the counters with any value.
WaterSubrecords ==
  {[sig |-> "XWCS", val |-> PyInt(n)] : n \in {0, 1, 7}}
  \cup {[sig |-> "XWCN", val |-> PyInt(n)] : n \in {0, 2, 5}}
  \cup {[sig |-> "XWCU", val |-> PyList(l)] :
          l \in SeqsUpTo(Velocities, MaxVelocities) \ {<<>>}}

WaterStreams ==
  {s \in SeqsUpTo(WaterSubrecords, 3) :
     \A i, j \in DOMAIN s : s[i].sig = s[j].sig => i = j}

InitWater ==
  /\ CoreIdle
  /\ subrecords \in WaterStreams
  /\ consumed = 0
  /\ water = [water_velocities_count |-> None,
              water_velocities |-> PyList(<<>>)]
  /\ written = <<>>
  /\ water_dumped = FALSE
  /\ DebrIdle
  /\ DialogIdle
  /\ SaveIdle
  /\ GmstIdle

\* What the steps of these subrecords leave alone.
waterframe == <<corevars, debrvars, dialogvars, savevars, gmstvars>>

\* The record's loader meets the next subrecord.
WaterLoad ==
  /\ consumed < Len(subrecords)
  /\ ~water_dumped
  /\ water' = MelSequential_loadData(MelWaterVelocities_init, water,
                                     subrecords[consumed + 1])
  /\ consumed' = consumed + 1
  /\ UNCHANGED <<subrecords, written, water_dumped>>
  /\ UNCHANGED waterframe

\* A patcher adds a velocity to the loaded record or removes the last one.
WaterPatch ==
  /\ consumed = Len(subrecords)
  /\ ~water_dumped
  /\ \E l \in {Append(water.water_velocities.v, v) : v \in Velocities}
             \cup {SubSeq(water.water_velocities.v, 1,
                          Len(water.water_velocities.v) - 1)} :
       /\ l # water.water_velocities.v
       /\ Len(l) <= MaxVelocities
       /\ water' = [water EXCEPT !.water_velocities = PyList(l)]
  /\ UNCHANGED <<subrecords, consumed, written, water_dumped>>
  /\ UNCHANGED waterframe

\* The record is written: MelSequential.dumpData of the three elements.
WaterDump ==
  /\ consumed = Len(subrecords)
  /\ ~water_dumped
  /\ \E r \in {MelSequential_dumpData(MelWaterVelocities_init, water, <<>>)} :
       /\ water' = r.record
       /\ written' = r.wrote
  /\ water_dumped' = TRUE
  /\ UNCHANGED <<subrecords, consumed>>
  /\ UNCHANGED waterframe

NextWater == WaterLoad \/ WaterPatch \/ WaterDump

SpecWater == InitWater /\ [][NextWater]_vars

\* ------------------------------------------------------------------------
\* MreDebr.MelDebrData: the DATA subrecord of a DEBR record
\* ------------------------------------------------------------------------
\* bolt.null1, the byte string of one null byte.
null1 == <<0>>

\* MelDebrData.loadData: the whole payload is read; its first byte is the
\* percentage, the bytes from the second up to the third from the end are
\* the model path, the second from the end must be a null byte and the
\* last is the flags. Each attribute is set as its statement is reached.
MelDebrData_loadData(record, d, st, size) ==
  The({IF ~Ok(r.st) THEN [st |-> r.st, val |-> record]
       ELSE IF Len(r.val) = 0
         THEN [st |-> Raise(r.st, "struct.error"), val |-> record]
       ELSE The({IF Len(r.val) < 2
                   THEN [st |-> Raise(r.st, "IndexError"), val |-> rec2]
                 ELSE IF <<r.val[Len(r.val) - 1]>> # null1
                   THEN [st |-> Raise(r.st, "ModError: Unexpected subrecord"),
                         val |-> rec2]
                   ELSE [st |-> r.st,
                         val |-> [rec2 EXCEPT !.flags = r.val[Len(r.val)]]] :
                   rec2 \in {[record EXCEPT
                                !.percentage = r.val[1],
                                !.modPath = IF Len(r.val) < 4 THEN <<>>
                                            ELSE SubSeq(r.val, 2,
                                                        Len(r.val) - 2)]}}) :
         r \in {ins_read(d, st, size)}})

\* MelDebrData.dumpData: percentage, modPath, a null byte and flags joined.
MelDebrData_dumpData(record) ==
  struct_pack("B", record.percentage) \o record.modPath \o null1
    \o struct_pack("B", record.flags)

\* The payloads stored: every byte string up to MaxDebr bytes over a null
\* byte, a control byte, a letter and the highest byte.
WDebr == SeqsUpTo({0, 1, 65, 255}, MaxDebr)

\* A DEBR record with the defaults MelDebrData.__init__ declares, in front
\* of a DATA subrecord; the stream may end before the declared size.
InitDebr ==
  /\ recType = "DEBR"
  /\ \E data \in WDebr :
       /\ size_ = Len(data)
       /\ ins \in {data, SubSeq(data, 1, Len(data) - 1)}
  /\ pos = 0
  /\ loaded = "none"
  /\ out = <<>>
  /\ dumped = "none"
  /\ debr = [percentage |-> 0, modPath |-> null1, flags |-> 0]
  /\ TreeIdle
  /\ WaterIdle
  /\ DialogIdle
  /\ SaveIdle
  /\ GmstIdle

\* What the steps of a DATA subrecord leave alone.
debrframe == <<recType, treevars, watervars, dialogvars, savevars, gmstvars>>

\* The subrecord is loaded: MelDebrData.loadData.
DebrLoad ==
  /\ loaded = "none"
  /\ \E r \in {MelDebrData_loadData(debr, ins, St(pos, cls), size_)} :
       /\ debr' = r.val
       /\ pos' = r.st.pos
       /\ loaded' = IF Ok(r.st) THEN "ok" ELSE r.st.err
  /\ UNCHANGED <<ins, size_, out, dumped>>
  /\ UNCHANGED debrframe

\* The record is written: MelDebrData.dumpData.
DebrDump ==
  /\ loaded = "ok"
  /\ dumped = "none"
  /\ out' = MelDebrData_dumpData(debr)
  /\ dumped' = "ok"
  /\ UNCHANGED <<ins, pos, size_, loaded, debr>>
  /\ UNCHANGED debrframe

NextDebr == DebrLoad \/ DebrDump

SpecDebr == InitDebr /\ [][NextDebr]_vars

\* ------------------------------------------------------------------------
\* basher/patcher_dialog.py: PatchDialog and its Build Patch button
\* ------------------------------------------------------------------------
\* any(p.isEnabled for p in self._gui_patchers)
AnyEnabled(patchers) == \E i \in DOMAIN patchers : patchers[i].isEnabled

\* PatchDialog.SetOkEnable: the value gExecute.enabled is given.
SetOkEnable(patchers) == [enabled |-> AnyEnabled(patchers)]

\* PatchDialog.__init__: a copy of each of all_gui_patchers (the module
\* starts with none registered), getConfig sets each one's isEnabled from
\* the saved configuration, the checklist is checked accordingly, the
\* second patcher (the first, if there is only one) is selected and shown,
\* and SetOkEnable is called.
InitDialog ==
  /\ CoreIdle
  /\ WaterIdle
  /\ DebrIdle
  /\ SaveIdle
  /\ GmstIdle
  /\ \E n \in 0..MaxPatchers :
       /\ gui_patchers \in [1..n -> [isEnabled : BOOLEAN]]
       /\ currentPatcher = IF n = 0 THEN None
                           ELSE PyInt(IF n - 1 < 1 THEN n - 1 ELSE 1)
  /\ gPatchers = [i \in DOMAIN gui_patchers |-> gui_patchers[i].isEnabled]
  /\ gExecute = SetOkEnable(gui_patchers)

\* What the dialog's handlers leave alone.
dialogframe == <<corevars, watervars, debrvars, savevars, gmstvars>>

\* PatchDialog.OnCheck: the user toggled the checkmark of a patcher; the
\* patcher's isEnabled becomes the checkmark, the patcher is selected and
\* shown, SetOkEnable.
OnCheck ==
  /\ gExecute # None
  /\ \E lb_selection_dex \in DOMAIN gui_patchers :
       /\ gPatchers' = [gPatchers EXCEPT ![lb_selection_dex] = ~@]
       /\ gui_patchers' = [gui_patchers EXCEPT
                             ![lb_selection_dex].isEnabled =
                                ~gPatchers[lb_selection_dex]]
       /\ currentPatcher' = PyInt(lb_selection_dex - 1)
  /\ gExecute' = SetOkEnable(gui_patchers')
  /\ UNCHANGED dialogframe

\* PatchDialog.CheckPatcher, called from a patcher's own OnCheck: the
\* patcher's checkmark is set, SetOkEnable.
CheckPatcher ==
  /\ gExecute # None
  /\ \E index \in DOMAIN gui_patchers :
       gPatchers' = [gPatchers EXCEPT ![index] = TRUE]
  /\ gExecute' = SetOkEnable(gui_patchers)
  /\ UNCHANGED <<gui_patchers, currentPatcher>>
  /\ UNCHANGED dialogframe

\* PatchDialog._load_config (ImportConfig, RevertConfig, DefaultConfig):
\* each patcher's import_config sets its isEnabled from the configuration
\* that is loaded, the checkmark follows, SetOkEnable.
LoadConfig ==
  /\ gExecute # None
  /\ \E patchConfigs \in [DOMAIN gui_patchers -> BOOLEAN] :
       /\ gui_patchers' = [i \in DOMAIN gui_patchers |->
                             [gui_patchers[i] EXCEPT
                                !.isEnabled = patchConfigs[i]]]
       /\ gPatchers' = [i \in DOMAIN gui_patchers |-> patchConfigs[i]]
  /\ gExecute' = SetOkEnable(gui_patchers')
  /\ UNCHANGED currentPatcher
  /\ UNCHANGED dialogframe

\* PatchDialog.mass_select_recursive: all checkmarks are set to select,
\* every patcher is selected or deselected, and gExecute.enabled = select.
MassSelectRecursive ==
  /\ gExecute # None
  /\ \E select \in BOOLEAN :
       /\ gPatchers' = [i \in DOMAIN gPatchers |-> select]
       /\ gui_patchers' = [i \in DOMAIN gui_patchers |->
                             [gui_patchers[i] EXCEPT !.isEnabled = select]]
       /\ gExecute' = [enabled |-> select]
  /\ UNCHANGED currentPatcher
  /\ UNCHANGED dialogframe

\* PatchDialog.OnSelect: the selected patcher's panel is shown.
OnSelect ==
  /\ gExecute # None
  /\ \E lb_selection_dex \in DOMAIN gui_patchers :
       currentPatcher' = PyInt(lb_selection_dex - 1)
  /\ UNCHANGED <<gui_patchers, gPatchers, gExecute>>
  /\ UNCHANGED dialogframe

NextDialog ==
  OnCheck \/ CheckPatcher \/ LoadConfig \/ MassSelectRecursive \/ OnSelect

SpecDialog == InitDialog /\ [][NextDialog]_vars

\* ------------------------------------------------------------------------
\* basher/patcher_dialog.py: PatchDialog._save_pbash, the save and its
\* retry prompt
\* ------------------------------------------------------------------------
\* What patchFile.safeSave() does: it succeeds, or raises. CancelError and
\* SkipError are Bash's own, IOError and OSError carry an errno,
\* WindowsError is a subclass of OSError, and BoltError stands for the
\* exceptions the except clause does not name.
SafeSaveRaises ==
  {[cls |-> c] : c \in {"CancelError", "SkipError", "BoltError"}}
    \cup [cls : {"IOError", "OSError", "WindowsError"},
          errno : {"EACCES", "ENOENT", "ENOSPC"}]

\* isinstance(werr, OSError)
IsOSError(werr) == werr.cls \in {"OSError", "WindowsError"}

\* except (CancelError, SkipError, OSError, IOError) as werr
SavePbashCatches(werr) ==
  werr.cls \in {"CancelError", "SkipError", "IOError"} \/ IsOSError(werr)

\* An except clause that prompts for every OSError.
SavePbashReraises_never(werr) == IsOSError(werr) /\ ~IsOSError(werr)

\* _save_pbash's if isinstance(werr, OSError) and werr.errno !=
\* errno.EACCES: raise
SavePbashReraises(werr) == IsOSError(werr) /\ werr.errno # "EACCES"

\* A counter that stops counting at MaxSaves.
Counted(n) == IF n < MaxSaves THEN n + 1 ELSE n

\* _save_pbash is entered.
InitSave ==
  /\ CoreIdle
  /\ WaterIdle
  /\ DebrIdle
  /\ DialogIdle
  /\ GmstIdle
  /\ save_pc = "safeSave"
  /\ save_result = None
  /\ raising = None
  /\ safeSaves = 0
  /\ prompts = 0
  /\ answer = None

\* What a save leaves alone.
saveframe == <<corevars, watervars, debrvars, dialogvars, gmstvars>>

\* One pass of the while loop up to the prompt: patchFile.safeSave() and,
\* when it raises, the except clause.
SafeSave ==
  /\ save_pc = "safeSave"
  /\ safeSaves' = Counted(safeSaves)
  /\ \/ /\ save_result' = [cls |-> "saved"]
        /\ save_pc' = "returned"
        /\ UNCHANGED <<raising, prompts>>
     \/ \E werr \in SafeSaveRaises :
          /\ save_result' = werr
          /\ IF ~SavePbashCatches(werr) \/ SavePbashReraises(werr)
             THEN /\ save_pc' = "raised"
                  /\ raising' = werr
                  /\ UNCHANGED prompts
             ELSE /\ save_pc' = "_pretry"
                  /\ prompts' = Counted(prompts)
                  /\ UNCHANGED raising
  /\ UNCHANGED answer
  /\ UNCHANGED saveframe

\* _pretry returns the user's answer to balt.askYes: yes continues the
\* loop, no re-raises the exception being handled.
Pretry ==
  /\ save_pc = "_pretry"
  /\ \E yes \in BOOLEAN :
       /\ answer' = PyBool(yes)
       /\ save_pc' = IF yes THEN "safeSave" ELSE "raised"
       /\ raising' = IF yes THEN raising ELSE save_result
  /\ UNCHANGED <<save_result, safeSaves, prompts>>
  /\ UNCHANGED saveframe

NextSave == SafeSave \/ Pretry

SpecSave == InitSave /\ [][NextSave]_vars

\* The loop runs on by itself: once _pretry has returned True nothing
\* stands between the continue and the next safeSave call. The user's
\* answer is not the program's to schedule.
SpecSaveFair == SpecSave /\ WF_vars(SafeSave)

\* ------------------------------------------------------------------------
\* patcher/patchers/multitweak_settings.py: GmstTweak
\* ------------------------------------------------------------------------
\* unicode.lower() on the editor IDs that occur.
lower(eid) ==
  CASE eid \in {"fAlpha", "FALPHA", "falpha"} -> "falpha"
    [] eid \in {"iBeta", "IBETA", "ibeta"} -> "ibeta"
    [] eid \in {"sGamma", "sgamma"} -> "sgamma"

\* unicode.startswith(u'f') on them.
startswith_f(eid) == eid \in {"fAlpha", "falpha"}

\* bolt.floats_equal on the float values that occur, which differ by far
\* more than its tolerance.
floats_equal(a, b) == a.v = b.v

\* GmstTweak.chosen_eids (the tweak_key) and GmstTweak.chosen_values of the
\* tweak: a float setting and an integer one.
chosen_eids == <<"fAlpha", "iBeta">>

chosen_values == <<PyFloat(2), PyInt(1)>>

\* bush.game.bethDataFiles
bethDataFiles == {"skyrim.esm", "update.esm"}

\* GmstTweak._find_chosen_value
GmstTweak_find_chosen_value(wanted_eid) ==
  IF \E i \in DOMAIN chosen_eids : wanted_eid = lower(chosen_eids[i])
  THEN chosen_values[CHOOSE i \in DOMAIN chosen_eids :
                       /\ wanted_eid = lower(chosen_eids[i])
                       /\ \A j \in 1..(i - 1) :
                            wanted_eid # lower(chosen_eids[j])]
  ELSE None

\* GmstTweak._find_original_eid
GmstTweak_find_original_eid(lower_eid) ==
  IF \E i \in DOMAIN chosen_eids : lower_eid = lower(chosen_eids[i])
  THEN chosen_eids[CHOOSE i \in DOMAIN chosen_eids :
                     /\ lower_eid = lower(chosen_eids[i])
                     /\ \A j \in 1..(i - 1) :
                          lower_eid # lower(chosen_eids[j])]
  ELSE lower_eid

\* GmstTweak.wants_record: [ret, eid_was_itpo]
GmstTweak_wants_record(itpo, record) ==
  IF record.fid[1] \notin bethDataFiles
  THEN [ret |-> FALSE, eid_was_itpo |-> itpo]
  ELSE IF lower(record.eid) \notin DOMAIN itpo
  THEN [ret |-> FALSE, eid_was_itpo |-> itpo]
  ELSE The({[ret |-> ret_val,
             eid_was_itpo |-> [itpo EXCEPT ![lower(record.eid)] = ~ret_val]] :
            ret_val \in {IF startswith_f(lower(record.eid))
                         THEN ~floats_equal(record.value,
                                GmstTweak_find_chosen_value(lower(record.eid)))
                         ELSE record.value #
                                GmstTweak_find_chosen_value(lower(record.eid))}})

\* GmstTweak.tweak_record: [record, eid_was_itpo]
GmstTweak_tweak_record(itpo, record) ==
  [record |-> [record EXCEPT
                 !.value = GmstTweak_find_chosen_value(lower(record.eid))],
   eid_was_itpo |-> [k \in DOMAIN itpo \cup {lower(record.eid)} |->
                       IF k = lower(record.eid) THEN TRUE ELSE itpo[k]]]

\* GmstTweak.finish_tweaking: the new_gmst calls it makes.
GmstTweak_finish_tweaking(itpo) ==
  {<<GmstTweak_find_original_eid(remaining_eid),
     GmstTweak_find_chosen_value(remaining_eid)>> :
     remaining_eid \in {e \in DOMAIN itpo : ~itpo[e]}}

\* The GMST records of the loaded plugins: the file of the fid, the EDID in
\* the case the plugin has it, the value.
GmstRecords ==
  [fid : {<<"skyrim.esm">>, <<"mod.esp">>}, eid : {"fAlpha", "FALPHA"},
   value : {PyFloat(1), PyFloat(2)}]
    \cup [fid : {<<"skyrim.esm">>, <<"mod.esp">>}, eid : {"iBeta"},
          value : {PyInt(1), PyInt(3)}]
    \cup [fid : {<<"update.esm">>}, eid : {"sGamma"}, value : {PyStr("x")}]

\* A tweak with its eid_was_itpo as the property first makes it, and two
\* records.
InitGmst ==
  /\ CoreIdle
  /\ WaterIdle
  /\ DebrIdle
  /\ DialogIdle
  /\ SaveIdle
  /\ gmst_records \in [1..2 -> GmstRecords]
  /\ eid_was_itpo = [e \in {lower(chosen_eids[i]) : i \in DOMAIN chosen_eids}
                       |-> FALSE]
  /\ new_gmsts = {}
  /\ gmst_pc = "tweaking"
  /\ tweaked_eids = {}
  /\ last_check = <<>>

\* What a tweak leaves alone.
gmstframe == <<corevars, watervars, debrvars, dialogvars, savevars>>

\* wants_record(record) of one of the records.
WantsRecord ==
  /\ gmst_pc = "tweaking"
  /\ \E n \in DOMAIN gmst_records :
       \E r \in {GmstTweak_wants_record(eid_was_itpo, gmst_records[n])} :
         /\ eid_was_itpo' = r.eid_was_itpo
         /\ last_check' =
              IF gmst_records[n].fid[1] \in bethDataFiles
              THEN [k \in DOMAIN last_check \cup {lower(gmst_records[n].eid)}
                      |-> IF k = lower(gmst_records[n].eid) THEN r.ret
                          ELSE last_check[k]]
              ELSE last_check
  /\ UNCHANGED <<gmst_records, new_gmsts, gmst_pc, tweaked_eids>>
  /\ UNCHANGED gmstframe

\* tweak_record(record) of one of the records.
TweakRecord ==
  /\ gmst_pc = "tweaking"
  /\ \E n \in DOMAIN gmst_records :
       \E r \in {GmstTweak_tweak_record(eid_was_itpo, gmst_records[n])} :
         /\ eid_was_itpo' = r.eid_was_itpo
         /\ gmst_records' = [gmst_records EXCEPT ![n] = r.record]
         /\ tweaked_eids' = tweaked_eids \cup {lower(gmst_records[n].eid)}
  /\ UNCHANGED <<new_gmsts, gmst_pc, last_check>>
  /\ UNCHANGED gmstframe

\* finish_tweaking(patch_file)
FinishTweaking ==
  /\ gmst_pc = "tweaking"
  /\ new_gmsts' = GmstTweak_finish_tweaking(eid_was_itpo)
  /\ gmst_pc' = "finished"
  /\ UNCHANGED <<gmst_records, eid_was_itpo, tweaked_eids, last_check>>
  /\ UNCHANGED gmstframe

NextGmst == WantsRecord \/ TweakRecord \/ FinishTweaking

SpecGmst == InitGmst /\ [][NextGmst]_vars

\* ------------------------------------------------------------------------
\* Properties of MelVmad.loadData and MelVmad.dumpData
\* ------------------------------------------------------------------------
\* The header as the stream stores it at the start of the subrecord.
HeaderStored == Len(ins) >= start + 6
StoredVersion == ToSigned(FromLE(SubSeq(ins, start + 1, start + 2)), 2)
StoredFormat == ToSigned(FromLE(SubSeq(ins, start + 3, start + 4)), 2)
StoredCount == FromLE(SubSeq(ins, start + 5, start + 6))

\* record.vmdata is as loadData left it: no patcher and no dump ran since.
JustLoaded ==
  /\ loaded # "none"
  /\ dumped = "none"
  /\ patched => cycle >= 1
  /\ mapped # "save"

\* The tree the input of the first decode gave, before any patcher ran.
FirstDecoded == MelVmad_loadData(recType, ins, St(start, ClassAttrs0), size_).val

\* C1: a header version outside 1..5 makes loadData fail with the version
\* ModError; a version in 1..5 with object format 1 or 2, a script count of
\* zero and nothing after the header yields an empty script list and no
\* special data.
C1_HeaderVersion ==
  (JustLoaded /\ HeaderStored) =>
    /\ (StoredVersion \notin 1..5) => (loaded = "ModError: version")
    /\ (/\ StoredVersion \in 1..5
        /\ StoredFormat \in {1, 2}
        /\ StoredCount = 0
        /\ size_ = 6
        /\ Len(ins) = start + 6)
       => (/\ loaded = "ok"
           /\ vmdata.scripts = <<>>
           /\ vmdata.special_data = None)

C1_Witness ==
  /\ JustLoaded
  /\ loaded = "ok"
  /\ cycle = 0
  /\ recType = "QUST"
  /\ StoredVersion = 1
  /\ StoredCount = 0
  /\ Len(ins) = start + 6
  /\ vmdata.scripts = <<>>
  /\ vmdata.special_data = None

\* C2: an object format other than 1 and 2 (under an accepted version) is
\* a hard error, raised before any Script is decoded.
C2_ObjectFormat ==
  (/\ loaded # "none"
   /\ HeaderStored
   /\ StoredVersion \in 1..5
   /\ StoredFormat \notin {1, 2})
  => (loaded = "ModError: object format" /\ Steps(log, "Script") = {})

C2_Witness ==
  /\ loaded = "ModError: object format"
  /\ StoredFormat = 3
  /\ StoredCount = 1
  /\ Len(ins) > start + 6
  /\ Steps(log, "Script") = {}

\* C5 (as the specification states it): after a loadData that raised,
\* record.vmdata is what it was before the call.
C5_NoPartialTree == (loaded \notin {"none", "ok"}) => (vmdata = before)

\* C6 (as the specification states it): every Script and Property decode
\* step runs under a version in 1..5 and an object format in {1, 2}, and
\* every ObjectRef is read under an object format in {1, 2}, the ones below
\* an Alias included.
C6_AllStepsInRange ==
  \A i \in DOMAIN log :
    /\ log[i].step \in {"Script", "Property"}
         => (log[i].ver \in 1..5 /\ log[i].fmt \in {1, 2})
    /\ log[i].step = "ObjectRef" => log[i].fmt \in {1, 2}

\* C7: the encoder always upgrades: the outer header and every Alias header
\* are written as version 5 and object format 2, every Property is written
\* with its flags byte, every ObjectRef as unused, aid, fid.
C7_EncodeUpgrades ==
  (dumped = "ok") =>
    /\ SubSeq(out, 1, 4) = <<5, 0, 2, 0>>
    /\ \A i \in DOMAIN dlog :
         LET e == dlog[i]
         IN /\ e.step = "Alias"
                 => SubSeq(e.wrote.header, 1, 4) = <<5, 0, 2, 0>>
            /\ e.step = "Property"
                 => /\ e.wrote.attrs = <<"prop_name", "prop_type", "prop_flags">>
                    /\ Len(e.wrote.bytes)
                         = 2 + FromLE(SubSeq(e.wrote.bytes, 1, 2)) + 2
            /\ e.step = "ObjectRef"
                 => e.wrote.bytes = <<0, 0>> \o ToLE(e.wrote.ref.aid, 2)
                                     \o ToLE(e.wrote.ref.fid, 4)

C7_Witness ==
  /\ dumped = "ok"
  /\ cycle = 0
  /\ StoredVersion = 3
  /\ StoredFormat = 1
  /\ Steps(dlog, "Alias") # {}
  /\ Steps(dlog, "Property") # {}
  /\ \E i \in Steps(dlog, "ObjectRef") :
       dlog[i].wrote.ref.aid # 0 /\ dlog[i].wrote.ref.fid # 0

\* C8: every count the encoder writes is the length of the list it counts
\* at that moment, whatever count the tree stored: the outer script count,
\* property_count, fragment_count, the alias count, an alias' script_count,
\* the phase fragment count and the array lengths.
C8_CountsWritten ==
  (dumped = "ok") =>
    /\ FromLE(SubSeq(out, 5, 6)) = Len(saved.scripts)
    /\ \A i \in Steps(dlog, "Count") :
         FromLE(dlog[i].wrote.bytes) = Len(dlog[i].wrote.list)

C8_Witness ==
  /\ dumped = "ok"
  /\ cycle = 0
  /\ patched
  /\ FirstDecoded.scripts # <<>>
  /\ saved.scripts # <<>>
  /\ FirstDecoded.scripts[1].property_count.v
       # Len(saved.scripts[1].properties)
  /\ saved.scripts[1].property_count.v = Len(saved.scripts[1].properties)
  /\ saved.special_data # None
  /\ saved.special_data.cls = "VmadHandlerQUST"
  /\ saved.special_data.aliases # <<>>

\* C9: for the fixed-slot containers (INFO, PACK, SCEN) the flag bit that
\* is written is set exactly when the child is not None, the children go
\* out in declared order, and decoding the written bytes gives the same
\* children present.
FixedHandlers == {"VmadHandlerINFO", "VmadHandlerPACK", "VmadHandlerSCEN"}

SavedFixed ==
  /\ saved # None
  /\ saved.special_data # None
  /\ recType \in handler_map_keys
  /\ saved.special_data.cls \in FixedHandlers

C10_SpecialData ==
  \A i \in Steps(log, "ScriptsDone") :
    LET invoked == Steps(log, "Handler") # {}
    IN /\ invoked <=> (/\ log[i].at < start + size_
                       /\ recType \in {"INFO", "PACK", "PERK", "QUST", "SCEN"})
       /\ ~invoked => (loaded = "ok" /\ vmdata.special_data = None)
       /\ invoked => (/\ HasAttr(vmdata, "special_data")
                      /\ vmdata.special_data # None)

C10_Witness ==
  /\ loaded = "ok"
  /\ cycle = 0
  /\ recType = "QUST"
  /\ \E i \in Steps(log, "ScriptsDone") : log[i].at = start + size_
  /\ Len(ins) > start + size_
  /\ Steps(log, "Handler") = {}
  /\ vmdata.special_data = None

\* ------------------------------------------------------------------------
\* Properties of Property.load_data and Property.dump_data
\* ------------------------------------------------------------------------
\* The type tag the stream stores, after the property's name.
StoredTag == ins[2 + FromLE(SubSeq(ins, 1, 2)) + 1]

\* The bytes a property takes before its payload, with and without the
\* flags byte.
StoredHeadLen(version) ==
  2 + FromLE(SubSeq(ins, 1, 2)) + 1 + (IF version >= 4 THEN 1 ELSE 0)

\* What Property.load_data makes of bytes written as version 5, format 2.
Reread(bytes) ==
  Property_load_data(make_new("Property"), bytes, St(0, cls), 5, 2)

\* C3: for every type tag, Property.load_data raises exactly when
\* Property.dump_data raises for a property of that tag, and for a tag that
\* does not raise the payload written has the shape of the payload read:
\* as many bytes for the record that was loaded, and bytes that load back
\* to the record that was dumped.
C3_LoadDumpAgree ==
  /\ StoredTag = made.prop_type.v
  /\ (loaded # "none" /\ made_dumped # "none")
       => /\ (loaded = "ok") <=> (made_dumped = "ok")
          /\ (loaded = "ModError: property type")
               <=> (made_dumped = "ModError: property type")
  /\ (loaded = "ok" /\ dumped # "none")
       => /\ dumped = "ok"
          /\ Len(out) - StoredHeadLen(5) = pos - StoredHeadLen(vmad_version)
          /\ Ok(Reread(out).st)
          /\ Reread(out).st.pos = Len(out)
          /\ Reread(out).val = prop
  /\ (made_dumped = "ok")
       => /\ Ok(Reread(made_out).st)
          /\ Reread(made_out).st.pos = Len(made_out)
          /\ Reread(made_out).val = made

C3_Witness ==
  /\ loaded = "ok"
  /\ dumped = "ok"
  /\ made_dumped = "ok"
  /\ StoredTag = 11
  /\ vmad_version = 3
  /\ obj_format = 1
  /\ prop.prop_data.v # <<>>
  /\ made.prop_data.v # <<>>

\* The type tags Property.load_data accepts, found by loading a stored
\* property of every tag.
AcceptedTags ==
  {ty \in PropertyTags :
     \A pl \in WPayloads(ty, 2) :
       Ok(Property_load_data(make_new("Property"),
                             WProperty(5, <<80>>, ty, 1, pl),
                             St(0, ClassAttrs0), 5, 2).st)}

C11_FullyConsumed ==
  (loaded = "ok" /\ vmdata.special_data = None) => (pos = start + size_)

\* ------------------------------------------------------------------------
\* Further properties of a Property by itself
\* ------------------------------------------------------------------------
\* The 8 bytes after the head of a stored property, and what they hold when
\* read as fid, aid, unused and as unused, aid, fid.
StoredRefBytes ==
  SubSeq(ins, StoredHeadLen(vmad_version) + 1, StoredHeadLen(vmad_version) + 8)

StoredRefAs(layout) ==
  IF layout = 1
    THEN ObjectRef(ToSigned(FromLE(SubSeq(StoredRefBytes, 5, 6)), 2),
                   FromLE(SubSeq(StoredRefBytes, 1, 4)))
    ELSE ObjectRef(ToSigned(FromLE(SubSeq(StoredRefBytes, 3, 4)), 2),
                   FromLE(SubSeq(StoredRefBytes, 5, 8)))

\* C12: an object reference takes exactly 8 bytes on decode and on encode;
\* under format 1 the bytes are fid (4), aid (signed 16-bit), pad (2), under
\* format 2 pad, aid, fid, so the same 8 bytes read under the other format
\* give the other layout's pair (for a fid below 2^31, the range the model
\* computes in); the encoder writes pad, aid, fid.
C12_ObjectRefLayout ==
  (loaded = "ok" /\ StoredTag = 1) =>
    /\ pos = StoredHeadLen(vmad_version) + 8
    /\ prop.prop_data = StoredRefAs(obj_format)
    /\ (StoredRefBytes[4] < 128 /\ StoredRefBytes[8] < 128)
         => ObjectRef_from_file(StoredRefBytes, St(0, cls), 3 - obj_format)
              = [st |-> [St(8, cls) EXCEPT
                           !.log = <<[step |-> "ObjectRef",
                                      fmt |-> 3 - obj_format, at |-> 0]>>],
                 val |-> StoredRefAs(3 - obj_format)]
    /\ (dumped = "ok")
         => /\ Len(out) = StoredHeadLen(5) + 8
            /\ SubSeq(out, StoredHeadLen(5) + 1, Len(out))
                 = <<0, 0>> \o ToLE(prop.prop_data.aid, 2)
                    \o ToLE(prop.prop_data.fid, 4)

C12_Witness ==
  /\ loaded = "ok"
  /\ StoredTag = 1
  /\ dumped = "ok"
  /\ obj_format = 1
  /\ StoredRefBytes[4] < 128
  /\ StoredRefBytes[8] < 128
  /\ StoredRefAs(1) # StoredRefAs(2)
  /\ prop.prop_data = StoredRefAs(1)
  /\ prop.prop_data.aid < 0

\* C13: under version >= 4 Property.load_data consumes one flags byte after
\* the type tag and the status flags are that byte; under version <= 3 it
\* consumes no flags byte and the status flags are exactly 'edited' (1);
\* this for every type tag, the payload being read right after.
C13_FlagsByte ==
  (loaded \in {"ok", "ModError: property type"}) =>
    /\ (vmad_version >= 4)
         => /\ prop.prop_flags = Flags(ins[StoredHeadLen(3) + 1])
            /\ StoredHeadLen(vmad_version) = StoredHeadLen(3) + 1
    /\ (vmad_version <= 3)
         => /\ prop.prop_flags = Flags(1)
            /\ StoredHeadLen(vmad_version) = StoredHeadLen(3)
    /\ (loaded = "ModError: property type" \/ StoredTag = 0)
         => pos = StoredHeadLen(vmad_version)
    /\ (loaded = "ok") => pos = Len(ins)
    /\ (loaded = "ok" /\ StoredTag = 3)
         => /\ pos = StoredHeadLen(vmad_version) + 4
            /\ prop.prop_data
                 = PyInt(FromLE32Signed(SubSeq(ins,
                           StoredHeadLen(vmad_version) + 1,
                           StoredHeadLen(vmad_version) + 4)))

C13_Witness ==
  /\ loaded = "ok"
  /\ StoredTag = 3
  /\ vmad_version = 4
  /\ ins[StoredHeadLen(3) + 1] = 3
  /\ prop.prop_flags = Flags(3)
  /\ prop.prop_data = PyInt(-2)

\* ------------------------------------------------------------------------
\* Properties of Alias.load_data
\* ------------------------------------------------------------------------
\* The version and object format stored in the header of the alias that
\* starts at a position of the input (after its 8-byte ObjectRef).
AliasStoredVersion(at) == ToSigned(FromLE(SubSeq(ins, at + 9, at + 10)), 2)

AliasStoredFormat(at) == ToSigned(FromLE(SubSeq(ins, at + 11, at + 12)), 2)

\* The ObjectRef stored at a position, read in one of the two layouts.
RefAt(at, layout) ==
  IF layout = 1
    THEN ObjectRef(ToSigned(FromLE(SubSeq(ins, at + 5, at + 6)), 2),
                   FromLE(SubSeq(ins, at + 1, at + 4)))
    ELSE ObjectRef(ToSigned(FromLE(SubSeq(ins, at + 3, at + 4)), 2),
                   FromLE(SubSeq(ins, at + 5, at + 8)))

\* The decode step of the alias under which a later step ran.
AliasOf(j) == CHOOSE i \in Steps(log, "Alias") :
                /\ i < j
                /\ \A k \in Steps(log, "Alias") : k < j => k <= i

\* C14: an Alias is decoded under its own embedded header, not the outer
\* one: its ObjectRef is read in the format stored in the alias header that
\* follows it, and every Script, Property and ObjectRef below the alias is
\* decoded under the alias's version and format, whatever the outer header
\* says.
C14_AliasOwnHeader ==
  (loaded = "ok") =>
    /\ \A i \in Steps(log, "Alias") :
         /\ log[i].ver = StoredVersion /\ log[i].fmt = StoredFormat
         /\ log[i + 1] = [step |-> "ObjectRef", at |-> log[i].at,
                          fmt |-> AliasStoredFormat(log[i].at)]
         /\ JustLoaded => \E a \in DOMAIN vmdata.special_data.aliases :
              LET alias == vmdata.special_data.aliases[a]
              IN /\ alias.alias_vmad_version
                      = PyInt(AliasStoredVersion(log[i].at))
                 /\ alias.alias_obj_format
                      = PyInt(AliasStoredFormat(log[i].at))
                 /\ alias.alias_ref_obj
                      = RefAt(log[i].at, AliasStoredFormat(log[i].at))
    /\ \A j \in DOMAIN log :
         (\E i \in Steps(log, "Alias") : i < j) =>
           /\ log[j].step \in {"Script", "Property"}
                => /\ log[j].ver = AliasStoredVersion(log[AliasOf(j)].at)
                   /\ log[j].fmt = AliasStoredFormat(log[AliasOf(j)].at)
           /\ log[j].step = "ObjectRef"
                => log[j].fmt = AliasStoredFormat(log[AliasOf(j)].at)

C14_Witness ==
  /\ loaded = "ok"
  /\ JustLoaded
  /\ cycle = 0
  /\ StoredVersion = 5
  /\ StoredFormat = 2
  /\ \E i \in Steps(log, "Alias") :
       /\ AliasStoredVersion(log[i].at) = 3
       /\ AliasStoredFormat(log[i].at) = 1
       /\ log[i + 1].fmt = 1
       /\ \E j, k \in DOMAIN log :
            /\ i + 1 < j /\ j < k
            /\ log[j].step = "Property" /\ log[j].ver = 3
            /\ log[k].step = "ObjectRef" /\ log[k].fmt = 1
  /\ vmdata.special_data.aliases[1].alias_ref_obj = ObjectRef(4, 21)
  /\ vmdata.special_data.aliases[1].scripts # <<>>

\* ------------------------------------------------------------------------
\* Round trips of the whole subrecord
\* ------------------------------------------------------------------------
\* A first loadData followed by dumpData of the untouched tree, for a
\* subrecord stored as version 5, object format 2 that ends with its
\* scripts.
PlainRoundTrip ==
  /\ cycle = 0
  /\ ~patched
  /\ mapped # "save"
  /\ dumped = "ok"
  /\ StoredVersion = 5
  /\ StoredFormat = 2
  /\ start = 0
  /\ size_ = Len(ins)
  /\ \E i \in Steps(log, "ScriptsDone") : log[i].at = Len(ins)

\* C15 (as the specification states it): for a subrecord stored as version
\* 5, object format 2 without special data, loadData followed by dumpData
\* writes the bytes that were read, whatever the scripts and properties.
C15_RoundTrip == PlainRoundTrip => (out = ins)

\* A stored payload is canonical when dump_data can write it back: a bool
\* is 0 or 1, the unused field of an object reference is 0 and a float is
\* not a signalling NaN.
CanonicalPayload(ty, pl) ==
  CASE ty = 1 -> SubSeq(pl, 1, 2) = <<0, 0>>
    [] ty = 4 -> ~IsSNaN(FromLE32Signed(pl))
    [] ty = 5 -> pl[1] \in {0, 1}
    [] ty = 11 -> \A k \in 0..(FromLE(SubSeq(pl, 1, 4)) - 1) :
                    SubSeq(pl, 5 + 8 * k, 6 + 8 * k) = <<0, 0>>
    [] ty = 14 -> \A k \in 0..(FromLE(SubSeq(pl, 1, 4)) - 1) :
                    ~IsSNaN(FromLE32Signed(SubSeq(pl, 5 + 4 * k, 8 + 4 * k)))
    [] ty = 15 -> \A k \in 5..Len(pl) : pl[k] \in {0, 1}
    [] OTHER -> TRUE

\* The stored scripts whose properties are of a type load_data accepts and
\* hold canonical payloads, and the subrecords made of them.
CanonicalScripts ==
  {WScript(<<83>>, 1, props) :
     props \in UNION {{<<WProperty(5, <<80>>, ty, fl, pl)>> :
                         fl \in {1, 3},
                         pl \in {x \in WPayloads(ty, 2) :
                                   CanonicalPayload(ty, x)}} :
                      ty \in LoadPropertyTypes}
               \cup SeqsUpTo({WProperty(5, <<>>, 0, 1, <<>>),
                              WProperty(5, <<82>>, 1, 1,
                                        WObjectRef(2, 0, 3, 20))}, MaxProps)}
  \cup WPlainScripts(5, 2)
  \cup {WScript(<<70, 111, 111>>, 0,
                <<WProperty(5, <<66, 97, 114>>, 4, 1, <<0, 0, 96, 64>>)>>)}

CanonicalInputs ==
  {WHeader(5, 2, Len(ss)) \o Flatten(ss) :
     ss \in SeqsUpTo(CanonicalScripts, MaxScripts)}

\* C15 (amended): the round trip writes as many bytes as were read, and the
\* very same bytes when every stored payload is canonical (the
\* specification's instance, one script "Foo" with a float property "Bar" of
\* 3.5, is).
C15_RoundTripCanonical ==
  PlainRoundTrip =>
    /\ Len(out) = Len(ins)
    /\ (ins \in CanonicalInputs) => (out = ins)

C15_Witness ==
  /\ PlainRoundTrip
  /\ ins = WHeader(5, 2, 1)
           \o WScript(<<70, 111, 111>>, 0,
                      <<WProperty(5, <<66, 97, 114>>, 4, 1,
                                  <<0, 0, 96, 64>>)>>)
  /\ ins \in CanonicalInputs
  /\ Len(vmdata.scripts) = 1
  /\ out = ins

\* C16 (as the specification states it): decoding what dumpData wrote,
\* under the same record type, succeeds and yields the tree that was dumped (as dumpData left it: counts
\* recomputed, flags recomputed from the children present, alias headers
\* set to version 5, format 2): the same script names and flags, property
\* names, types, flags and payloads, special-data fields, children present
\* and aliases.
C16_TreeRoundTrip ==
  (cycle = 1 /\ loaded # "none" /\ dumped = "none") =>
    /\ loaded = "ok"
    /\ vmdata = saved
    /\ pos = Len(ins)

\* ------------------------------------------------------------------------
\* Properties of MelVmad.mapFids
\* ------------------------------------------------------------------------
\* The form ids of the object references of a tree, in the order of the
\* tree: per script and property, the reference of an object property and
\* the elements of an object array; then, per alias of a QUST's special
\* data, the alias's reference and those of its scripts.
PropertyRefs(p) ==
  IF p.prop_type.v = 1 THEN <<p.prop_data.fid>>
  ELSE IF p.prop_type.v = 11
    THEN [i \in DOMAIN p.prop_data.v |-> p.prop_data.v[i].fid]
    ELSE <<>>

ScriptsRefs(scripts) ==
  Flatten([i \in DOMAIN scripts |->
             Flatten([j \in DOMAIN scripts[i].properties |->
                        PropertyRefs(scripts[i].properties[j])])])

TreeRefs(tree) ==
  IF tree = None THEN <<>>
  ELSE ScriptsRefs(tree.scripts)
       \o (IF tree.special_data # None
              /\ tree.special_data.cls = "VmadHandlerQUST"
             THEN Flatten([i \in DOMAIN tree.special_data.aliases |->
                             <<tree.special_data.aliases[i].alias_ref_obj.fid>>
                             \o ScriptsRefs(
                                  tree.special_data.aliases[i].scripts)])
             ELSE <<>>)

\* C17: mapFids calls the mapping function exactly once per object
\* reference of the tree, in the order of the tree, and for nothing else:
\* once per object property, once per element of an object array, once per
\* alias reference, the scripts of aliases included; other properties and
\* the fields and fragments of the special data cause no call.
C17_OneCallPerRef ==
  (mapped # "none") => (calls = TreeRefs(unmapped.tree))

C17_Witness ==
  /\ mapped = "query"
  /\ recType = "QUST"
  /\ calls = <<20, 21, 20>>
  /\ unmapped.tree.special_data.fragments # <<>>
  /\ Len(unmapped.tree.scripts) = 2
  /\ unmapped.tree.scripts[2].properties[1].prop_type.v = 3
  /\ unmapped.tree.special_data.aliases[1].scripts # <<>>

\* A tree with the form id of every object reference set to 0: what is
\* left is everything mapFids has no business changing.
BlankRef(r) == [r EXCEPT !.fid = 0]

BlankProperty(p) ==
  IF p.prop_type.v = 1 THEN [p EXCEPT !.prop_data = BlankRef(@)]
  ELSE IF p.prop_type.v = 11
    THEN [p EXCEPT !.prop_data.v = [i \in DOMAIN @ |-> BlankRef(@[i])]]
    ELSE p

BlankScripts(scripts) ==
  [i \in DOMAIN scripts |->
     [scripts[i] EXCEPT !.properties =
        [j \in DOMAIN @ |-> BlankProperty(@[j])]]]

BlankAlias(a) ==
  [a EXCEPT !.alias_ref_obj = BlankRef(@), !.scripts = BlankScripts(@)]

BlankTree(tree) ==
  IF tree = None THEN tree
  ELSE [tree EXCEPT
          !.scripts = BlankScripts(@),
          !.special_data =
             IF @ # None /\ @.cls = "VmadHandlerQUST"
               THEN [@ EXCEPT !.aliases = [i \in DOMAIN @ |-> BlankAlias(@[i])]]
               ELSE @]

\* record.vmdata is as mapFids left it.
JustMapped ==
  /\ mapped # "none"
  /\ dumped = "none"
  /\ (unmapped.tree = None) => (loaded = "none")

\* C18: the save flag holds for the whole traversal. In query mode the tree
\* is left as it was. In save mode the form id of every object reference is
\* the mapping function's result for its old form id, and nothing else in
\* the tree has changed: alias ids, other payloads, names, types, counts,
\* flags and the lengths of the lists.
C18_SaveFlag ==
  JustMapped =>
    /\ (mapped = "query") => (vmdata = unmapped.tree)
    /\ (mapped = "save")
         => /\ BlankTree(vmdata) = BlankTree(unmapped.tree)
            /\ TreeRefs(vmdata)
                 = [i \in DOMAIN calls |->
                      Call(function_, TreeRefs(unmapped.tree)[i])]

C18_Witness ==
  /\ JustMapped
  /\ mapped = "save"
  /\ function_ = "succ"
  /\ recType = "QUST"
  /\ calls = <<20, 21, 20>>
  /\ TreeRefs(vmdata) = <<21, 22, 21>>
  /\ vmdata # unmapped.tree
  /\ vmdata.special_data.aliases[1].alias_ref_obj = ObjectRef(4, 22)

\* ------------------------------------------------------------------------
\* Properties of MelVmad._get_special_handler
\* ------------------------------------------------------------------------
\* C19: the table of special handlers is filled lazily and at most once per
\* signature: its keys are always INFO, PACK, PERK, QUST and SCEN, an entry
\* is the handler class until the first lookup of its signature, every
\* lookup returns an instance of the signature's class, and all lookups of
\* a signature return the same instance, the one the table holds from then
\* on.
C19_HandlerTable ==
  /\ DOMAIN handler_map = {"INFO", "PACK", "PERK", "QUST", "SCEN"}
  /\ \A sig \in DOMAIN handler_map :
       /\ handler_map[sig].cls = handler_class(sig)
       /\ (handler_map[sig].instance = 0)
            <=> (\A i \in DOMAIN lookups : lookups[i].sig # sig)
  /\ \A i \in DOMAIN lookups :
       /\ lookups[i].got.instance # 0
       /\ lookups[i].got = handler_map[lookups[i].sig]
       /\ \A j \in DOMAIN lookups :
            (lookups[j].sig = lookups[i].sig) => (lookups[j].got = lookups[i].got)

C19_Witness ==
  /\ Len(lookups) = 4
  /\ cycle = 1
  /\ dumped = "ok"
  /\ handler_map["QUST"] = [cls |-> "VmadHandlerQUST", instance |-> 1]
  /\ \A i \in DOMAIN lookups :
       lookups[i] = [sig |-> "QUST", got |-> handler_map["QUST"]]
  /\ handler_map["SCEN"].instance = 0

\* ------------------------------------------------------------------------
\* Properties of MelBipedObjectData
\* ------------------------------------------------------------------------
\* C20: a BODT subrecord of exactly 8 bytes loads without error, with
\* armorFlags 0; one of exactly 12 bytes loads all its fields; one of any
\* other size raises ModSizeError and leaves the record alone. In both
\* legacy layouts the only thing kept of the legacy flags byte is bit 4,
\* non_playable, as flags1.isNotPlayable. What is written is always a BOD2
\* subrecord in the current layout: biped_flags, armorFlags.
C20_BipedLegacy ==
  /\ (sub_type = "BODT" /\ loaded # "none") =>
       /\ (size_ = 8 /\ Len(ins) = 8)
            => /\ loaded = "ok"
               /\ pos = 8
               /\ biped.biped_flags = Flags(FromLE(SubSeq(ins, 1, 4)))
               /\ biped.armorFlags = Flags(0)
       /\ (size_ = 12 /\ Len(ins) = 12)
            => /\ loaded = "ok"
               /\ pos = 12
               /\ biped.biped_flags = Flags(FromLE(SubSeq(ins, 1, 4)))
               /\ biped.armorFlags = Flags(FromLE(SubSeq(ins, 9, 12)))
       /\ (size_ \notin {8, 12})
            => /\ loaded = "ModSizeError"
               /\ pos = 0
               /\ biped = entered
       /\ (loaded = "ok")
            => /\ size_ \in {8, 12}
               /\ DOMAIN biped = {"biped_flags", "armorFlags", "flags1"}
               /\ biped.flags1
                    = [entered.flags1 EXCEPT !.isNotPlayable = Bit(ins[5], 4)]
  /\ (sub_type \in {"BODT", "BOD2"} /\ dumped = "ok") =>
       /\ out_type = "BOD2"
       /\ out = ToLE(biped.biped_flags.v, 4) \o ToLE(biped.armorFlags.v, 4)

C20_Witness ==
  /\ sub_type = "BODT"
  /\ size_ = 8
  /\ loaded = "ok"
  /\ dumped = "ok"
  /\ ins[5] = 239
  /\ entered.flags1.isNotPlayable
  /\ ~biped.flags1.isNotPlayable
  /\ biped.biped_flags = Flags(516)
  /\ out_type = "BOD2"
  /\ out = <<4, 2, 0, 0, 0, 0, 0, 0>>

\* ------------------------------------------------------------------------
\* C21: the legacy XWCS counter is read-only and the XWCN counter wins
\* ------------------------------------------------------------------------
\* The value the stream's subrecord of a type holds.
StoredSub(sig) ==
  The({subrecords[i].val : i \in {j \in DOMAIN subrecords :
                                    subrecords[j].sig = sig}})

HasSub(sig) == \E i \in DOMAIN subrecords : subrecords[i].sig = sig

\* C21: when a record's stream holds both XWCS and XWCN, in either order,
\* the loaded water_velocities_count is the value of XWCN; dumpData never
\* writes XWCS and writes XWCN once, with the current length of
\* water_velocities.
C21_NewerCounterWins ==
  /\ (consumed = Len(subrecords) /\ ~water_dumped
      /\ HasSub("XWCS") /\ HasSub("XWCN"))
       => water.water_velocities_count = StoredSub("XWCN")
  /\ water_dumped =>
       /\ \A i \in DOMAIN written : written[i].sig # "XWCS"
       /\ Cardinality({i \in DOMAIN written : written[i].sig = "XWCN"}) = 1
       /\ \A i \in DOMAIN written : written[i].sig = "XWCN" =>
            written[i].val = PyInt(Len(water.water_velocities.v))
\* ------------------------------------------------------------------------
\* C22: only the QUST layout carries an alias list, at a fixed position
\* ------------------------------------------------------------------------
\* The bytes of children as their own dump_data writes them.
ChildBytes(child_cls, children) ==
  dump_children(child_cls, children, St(0, ClassAttrs0), <<>>, <<>>).out

\* The layout the claim gives an alias: its object reference, its 6-byte
\* header and its scripts.
AliasLayout(alias) ==
  ObjectRef_dump_out(alias.alias_ref_obj)
    \o struct_pack("h", alias.alias_vmad_version.v)
    \o struct_pack("h", alias.alias_obj_format.v)
    \o struct_pack("H", Len(alias.scripts))
    \o ChildBytes("Script", alias.scripts)

\* The layout the claim gives QUST special data: the scalar fields, the
\* fragments, a 16-bit alias count, the aliases.
QustLayout(sd) ==
  dump_processors(VmadHandlerQUST_processors, sd, St(0, ClassAttrs0),
                  <<>>).out
    \o ChildBytes("FragmentQUST", sd.fragments)
    \o struct_pack("H", Len(sd.aliases))
    \o Flatten([k \in DOMAIN sd.aliases |-> AliasLayout(sd.aliases[k])])

\* The k-th entry of a step in the decode log.
NthStep(step, k) ==
  CHOOSE i \in Steps(log, step) :
    Cardinality({j \in Steps(log, step) : j < i}) = k - 1

\* Where QUST special data that was decoded keeps its alias count: behind
\* the scalar fields and the fragments.
AliasCountAt(sd) ==
  log[NthStep("Handler", 1)].at + 5 + Len(sd.file_name.v)
    + Len(ChildBytes("FragmentQUST", sd.fragments))

\* The k-th alias was decoded from where the alias before it ended: its
\* object reference first, the header in the 6 bytes behind it, its scripts
\* behind the header.
AliasDecodedInOrder(sd, k) ==
  LET i == NthStep("Alias", k)
      at == log[i].at
      alias == sd.aliases[k]
      next == IF k < Len(sd.aliases) THEN log[NthStep("Alias", k + 1)].at
              ELSE pos
      scripts == {j \in Steps(log, "Script") :
                    /\ i < j
                    /\ k < Len(sd.aliases) => j < NthStep("Alias", k + 1)}
  IN /\ k = 1 => at = AliasCountAt(sd) + 2
     /\ log[i + 1].step = "ObjectRef" /\ log[i + 1].at = at
     /\ alias.alias_ref_obj
          = ObjectRef_from_file(ins, St(at, cls),
                                alias.alias_obj_format.v).val
     /\ SubSeq(ins, at + 9, at + 14)
          = struct_pack("h", alias.alias_vmad_version.v)
              \o struct_pack("h", alias.alias_obj_format.v)
              \o struct_pack("H", Len(alias.scripts))
     /\ Cardinality(scripts) = Len(alias.scripts)
     /\ \A j \in scripts : log[j].at >= at + 14
     /\ alias.scripts # <<>> => log[i + 2] = [step |-> "Script",
                                              ver |-> alias.alias_vmad_version.v,
                                              fmt |-> alias.alias_obj_format.v,
                                              at |-> at + 14]
     /\ alias.scripts = <<>> => next = at + 14
     /\ next >= at + 14

\* C22: of the special-data layouts only the one of QUST has aliases. A
\* decoded QUST layout has as many fragments as the stored fragment_count,
\* then the 16-bit alias count, then that many aliases, each decoded as
\* object reference, header, scripts; an encoded one is the scalar fields,
\* the fragments, the alias count and the aliases in that order.
C22_AliasListPosition ==
  /\ (JustLoaded /\ loaded = "ok" /\ vmdata.special_data # None) =>
       IF recType = "QUST"
         THEN The({/\ FromLE(SubSeq(ins, log[NthStep("Handler", 1)].at + 2,
                                    log[NthStep("Handler", 1)].at + 3))
                       = Len(sd.fragments)
                   /\ FromLE(SubSeq(ins, AliasCountAt(sd) + 1,
                                    AliasCountAt(sd) + 2)) = Len(sd.aliases)
                   /\ Cardinality(Steps(log, "Alias")) = Len(sd.aliases)
                   /\ \A k \in DOMAIN sd.aliases : AliasDecodedInOrder(sd, k)
                   /\ sd.aliases = <<>> => pos = AliasCountAt(sd) + 2 :
                     sd \in {vmdata.special_data}})
         ELSE /\ ~HasAttr(vmdata.special_data, "aliases")
              /\ Steps(log, "Alias") = {}
  /\ (dumped = "ok" /\ saved.special_data # None) =>
       IF recType = "QUST"
         THEN The({SubSeq(out, Len(out) - Len(l) + 1, Len(out)) = l
                     /\ Len(out) - Len(l)
                          = 6 + Len(ChildBytes("Script", saved.scripts)) :
                     l \in {QustLayout(saved.special_data)}})
         ELSE /\ ~HasAttr(saved.special_data, "aliases")
              /\ Steps(dlog, "Alias") = {}

C22_Witness ==
  /\ recType = "QUST"
  /\ loaded = "ok"
  /\ cycle = 0
  /\ ~patched
  /\ mapped = "none"
  /\ dumped = "ok"
  /\ saved.special_data # None
  /\ Len(saved.special_data.fragments) = 1
  /\ Len(saved.special_data.aliases) = 1
  /\ Len(saved.special_data.aliases[1].scripts) = 1
\* ------------------------------------------------------------------------
\* C23: SCEN special data decodes its phase fragments
\* ------------------------------------------------------------------------
\* Where the fixed part of decoded SCEN special data ends in the stream:
\* the scalar fields and the begin/end fragments the flags announce.
ScenFixedEnd ==
  AFixedContainer_load_data("VmadHandlerSCEN", make_new("VmadHandlerSCEN"),
                            ins, St(log[NthStep("Handler", 1)].at, cls),
                            log[NthStep("Handler", 1)].ver,
                            log[NthStep("Handler", 1)].fmt).st.pos

\* The phase fragment count stored behind the fixed part.
StoredPhaseCount == FromLE(SubSeq(ins, ScenFixedEnd + 1, ScenFixedEnd + 2))

\* The stored flags byte of the k-th phase fragment (the model's phase
\* fragments all take 12 bytes).
StoredPhaseFlags(k) == ins[ScenFixedEnd + 2 + 12 * (k - 1) + 1]

\* C23: loadData of a SCEN subrecord with special data reads a 16-bit count
\* behind the begin/end fragments, decodes that many phase fragments
\* without error, and each one's flags are the named-bit view of the flags
\* byte that was stored.
C23_ScenPhaseFragments ==
  (recType = "SCEN" /\ JustLoaded /\ Steps(log, "Handler") # {}
   /\ Len(ins) >= ScenFixedEnd + 2 + 12 * StoredPhaseCount) =>
    /\ loaded = "ok"
    /\ Len(vmdata.special_data.phase_fragments) = StoredPhaseCount
    /\ \A k \in DOMAIN vmdata.special_data.phase_fragments :
         \E attr \in {"fragment_flags", "fragment_phase_flags"} :
           /\ HasAttr(vmdata.special_data.phase_fragments[k], attr)
           /\ vmdata.special_data.phase_fragments[k][attr]
                = Flags(StoredPhaseFlags(k))
\* ------------------------------------------------------------------------
\* C24: the layout does not depend on what ran before
\* ------------------------------------------------------------------------
\* Where the regular attributes of the property decoded at a log entry end
\* when its layout is the one of its version: the name, the type tag and,
\* from version 4 on, the flags byte.
PropertyHeadEnd(i) ==
  log[i].at + 2 + FromLE(SubSeq(ins, log[i].at + 1, log[i].at + 2)) + 1
    + (IF log[i].ver >= 4 THEN 1 ELSE 0)

PropertyTagAt(i) ==
  ins[log[i].at + 2 + FromLE(SubSeq(ins, log[i].at + 1, log[i].at + 2)) + 1]

\* Where the decode went on after the log entry i: the cursor of the next
\* entry, or the final cursor.
NextAt(i) == IF i < Len(log) THEN log[i + 1].at ELSE pos

\* C24: whatever was decoded and encoded before (Property.processors and
\* Alias.processors are whatever the last call left), a Property decoded
\* under version <= 3 consumes no flags byte and one under version >= 4
\* does, a Property is encoded with the flags byte, an Alias is decoded as
\* its ObjectRef plus the three header fields, 14 bytes, and encoded with
\* the three header fields once; and a decode or encode that follows other
\* calls gives what it gives when nothing ran before.
C24_HistoryIndependent ==
  /\ (loaded = "ok") =>
       /\ \A i \in Steps(log, "Property") :
            IF i < Len(log) /\ log[i + 1].step = "ObjectRef"
              THEN log[i + 1].at = PropertyHeadEnd(i)
                     + (IF PropertyTagAt(i) = 11 THEN 4 ELSE 0)
              ELSE NextAt(i)
                     = Property_load_payload(PropertyTagAt(i), ins,
                                             St(PropertyHeadEnd(i), cls),
                                             log[i].fmt).st.pos
       /\ \A i \in Steps(log, "Alias") :
            /\ log[i + 1].step = "ObjectRef"
            /\ log[i + 1].at = log[i].at
            /\ NextAt(i + 1) = log[i].at + 14
  /\ \A i \in Steps(dlog, "Property") :
       dlog[i].wrote.attrs = <<"prop_name", "prop_type", "prop_flags">>
  /\ \A i \in Steps(dlog, "Alias") :
       SubSeq(dlog[i].wrote.header, 1, 4) = <<5, 0, 2, 0>>
  /\ (dumped = "ok" /\ recType = "QUST" /\ saved.special_data # None) =>
       Len(out) = 6 + Len(ChildBytes("Script", saved.scripts))
                    + Len(QustLayout(saved.special_data))
  /\ (loaded = "none" /\ cls # ClassAttrs0) =>
       The({/\ r.val = r0.val
            /\ r.st.pos = r0.st.pos
            /\ r.st.err = r0.st.err
            /\ r.st.log = r0.st.log :
              r \in {MelVmad_loadData(recType, ins, St(pos, cls), size_)},
              r0 \in {MelVmad_loadData(recType, ins, St(pos, ClassAttrs0),
                                       size_)}})
  /\ (loaded = "ok" /\ dumped = "none" /\ cls # ClassAttrs0) =>
       The({/\ r.rec = r0.rec
            /\ r.out = r0.out
            /\ r.st.err = r0.st.err
            /\ r.st.log = r0.st.log :
              r \in {MelVmad_dumpData(recType, vmdata, St(0, cls))},
              r0 \in {MelVmad_dumpData(recType, vmdata, St(0, ClassAttrs0))}})

\* A version 3 property of an alias was decoded after a version 5 property
\* had set the processors, and the tree, alias included, was then encoded.
C24_Witness ==
  /\ loaded = "ok"
  /\ cycle = 0
  /\ dumped = "ok"
  /\ \E j, k \in Steps(log, "Property") :
       j < k /\ log[j].ver >= 4 /\ log[k].ver <= 3
  /\ Steps(log, "Alias") # {}
  /\ Steps(dlog, "Alias") # {}
  /\ Cardinality(Steps(dlog, "Property")) = 2
\* ------------------------------------------------------------------------
\* C25: encode after decode is an idempotent normalisation
\* ------------------------------------------------------------------------
\* C25: for every stored subrecord that loadData accepts (any version and
\* format, any bool byte, any unused field of a reference), dumpData of the
\* decoded tree succeeds, what it wrote is accepted by loadData under the
\* same record type, and dumpData of that second tree writes the same
\* bytes again.
C25_Idempotent ==
  /\ (cycle = 0 /\ ~patched /\ mapped # "save" /\ loaded = "ok"
      /\ dumped \notin {"none", "skipped"}) => dumped = "ok"
  /\ (cycle = 1 /\ ~patched /\ mapped # "save") =>
       /\ ins = out
       /\ loaded # "none" => loaded = "ok"
       /\ dumped \notin {"none", "skipped"} => dumped = "ok"
       /\ dumped = "ok" => out = ins

\* A version 3, format 1 subrecord with a reference property whose stored
\* bytes change when normalised was decoded, encoded, decoded and encoded.
C25_Witness ==
  /\ cycle = 1
  /\ ~patched
  /\ mapped = "none"
  /\ loaded = "ok"
  /\ dumped = "ok"
  /\ out = ins
  /\ Len(ins) > 6
  /\ \E i \in Steps(log, "Property") : log[i].ver = 5
\* ------------------------------------------------------------------------
\* C26: what dumpData changes in the tree
\* ------------------------------------------------------------------------
\* A tree without what dumpData updates before writing: the counts, the
\* flag bits of the fixed slots and the version and format of each alias.
LessUpdatedScripts(scripts) ==
  [i \in DOMAIN scripts |-> [scripts[i] EXCEPT !.property_count = PyInt(0)]]

LessUpdatedAlias(a) ==
  [a EXCEPT !.alias_vmad_version = PyInt(0), !.alias_obj_format = PyInt(0),
            !.script_count = PyInt(0), !.scripts = LessUpdatedScripts(@)]

LessUpdatedSpecial(sd) ==
  IF sd.cls \in FixedHandlers
    THEN [sd EXCEPT !.fragment_flags =
            Flags(@.v - (@.v % (2 ^ Len(flags_to_children(sd.cls)))))]
  ELSE IF sd.cls = "VmadHandlerQUST"
    THEN [sd EXCEPT !.fragment_count = PyInt(0),
                    !.aliases = [i \in DOMAIN @ |-> LessUpdatedAlias(@[i])]]
    ELSE [sd EXCEPT !.fragment_count = PyInt(0)]

LessUpdated(tree) ==
  [tree EXCEPT !.scripts = LessUpdatedScripts(@),
               !.special_data = IF @ = None THEN @ ELSE LessUpdatedSpecial(@)]

\* C26: a dumpData that wrote a payload left the tree as it was but for the
\* counts, the flag bits of the fixed slots and the alias headers; the
\* lists, names, types, payloads, references and children are the same, and
\* dumping the tree once more leaves it as it is and writes the same bytes.
C26_DumpFrame ==
  [][(dumped = "none" /\ dumped' = "ok") =>
       /\ LessUpdated(vmdata') = LessUpdated(vmdata)
       /\ The({r.out = out' /\ r.rec = vmdata' /\ Ok(r.st) :
                 r \in {MelVmad_dumpData(recType, vmdata', St(0, cls'))}})]_vars

\* A patched QUST tree whose fragment count, alias header and alias script
\* count were stale was dumped.
C26_Witness ==
  /\ dumped = "ok"
  /\ patched
  /\ cycle = 0
  /\ recType = "QUST"
  /\ vmdata = saved
  /\ vmdata.special_data # None
  /\ Len(vmdata.special_data.aliases) = 1
  /\ vmdata.special_data.aliases[1].alias_vmad_version = PyInt(5)
  /\ Len(vmdata.special_data.aliases[1].scripts) = 1
  /\ vmdata.special_data.aliases[1].scripts[1].property_count = PyInt(1)
  /\ Steps(log, "Alias") # {}
  /\ AliasStoredVersion(log[NthStep("Alias", 1)].at) = 3
\* ------------------------------------------------------------------------
\* C27: the DATA subrecord of DEBR
\* ------------------------------------------------------------------------
\* C27: loadData of a payload of two or more bytes, all in the stream,
\* raises if and only if the byte before the last is not a null byte; and
\* dumpData of a record loaded from such a payload writes the payload that
\* was read: percentage, model path, null byte, flags.
C27_DebrData ==
  (Len(ins) = size_ /\ size_ >= 2 /\ loaded # "none") =>
    /\ (loaded # "ok") <=> (ins[size_ - 1] # 0)
    /\ (loaded # "ok") => loaded = "ModError: Unexpected subrecord"
    /\ (dumped = "ok") => out = ins
\* ------------------------------------------------------------------------
\* C28: the Build Patch button follows the patchers
\* ------------------------------------------------------------------------
\* C28: once the dialog is constructed, and after every OnCheck,
\* CheckPatcher, _load_config and mass_select_recursive, gExecute.enabled
\* is true if and only if some patcher of _gui_patchers has isEnabled true.
C28_OkEnabled ==
  (gExecute # None) => (gExecute.enabled <=> AnyEnabled(gui_patchers))
\* ------------------------------------------------------------------------
\* C29: the save loop and its retry prompt
\* ------------------------------------------------------------------------
\* The errors the claim says are followed by a prompt.
PromptedError(werr) ==
  \/ werr.cls \in {"CancelError", "SkipError", "IOError"}
  \/ werr.cls \in {"OSError", "WindowsError"} /\ werr.errno = "EACCES"

\* C29: _save_pbash returns normally only when the last safeSave
\* succeeded.
C29_ReturnsSaved ==
  (save_pc = "returned") => (save_result = [cls |-> "saved"] /\ raising = None)

\* C29: a safeSave that fails with CancelError, SkipError, IOError or an
\* OSError with errno EACCES is followed by one prompt; an OSError with
\* another errno leaves at once, without a prompt; yes at the prompt leads
\* to another safeSave and no re-raises the error that was caught.
C29_Step ==
  /\ (save_pc = "safeSave" /\ save_result'.cls # "saved")
       => IF PromptedError(save_result')
          THEN /\ save_pc' = "_pretry"
               /\ prompts < MaxSaves => prompts' = prompts + 1
               /\ raising' = None
          ELSE (save_result'.cls \in {"OSError", "WindowsError"})
                 => /\ save_pc' = "raised"
                    /\ raising' = save_result'
                    /\ prompts' = prompts
  /\ (save_pc = "_pretry")
       => /\ prompts' = prompts
          /\ safeSaves' = safeSaves
          /\ \/ answer' = PyBool(TRUE) /\ save_pc' = "safeSave"
                  /\ raising' = None
             \/ answer' = PyBool(FALSE) /\ save_pc' = "raised"
                  /\ raising' = save_result /\ PromptedError(save_result)
  /\ (save_pc \in {"returned", "raised"}) => UNCHANGED savevars

\* C29: the whole claim; the loop ends whenever safeSave eventually
\* succeeds or the user eventually answers no.
C29_SaveLoop ==
  /\ []C29_ReturnsSaved
  /\ [][C29_Step]_vars
  /\ [](prompts <= safeSaves)
  /\ (<>(save_result = [cls |-> "saved"]) \/ <>(answer = PyBool(FALSE)))
       => <>[](save_pc \in {"returned", "raised"})

\* A save that succeeded at the third attempt, after two prompts answered
\* yes.
C29_Witness ==
  /\ save_pc = "returned"
  /\ safeSaves = 3
  /\ prompts = 2
  /\ answer = PyBool(TRUE)
\* ------------------------------------------------------------------------
\* C30: new GMST records only for the EDIDs that still need one
\* ------------------------------------------------------------------------
\* C30: once finish_tweaking has run, new_gmst was called for a chosen
\* EDID, in its original case and with its chosen value, if and only if
\* the EDID was never tweaked and the last wants_record of a vanilla record
\* with that EDID did not find the chosen value there (or there was no such
\* record); a tweaked EDID gets no new record.
C30_NewGmst ==
  (gmst_pc = "finished") =>
    \A i \in DOMAIN chosen_eids :
      /\ (<<chosen_eids[i], chosen_values[i]>> \in new_gmsts)
           <=> /\ lower(chosen_eids[i]) \notin tweaked_eids
               /\ (lower(chosen_eids[i]) \in DOMAIN last_check
                     => last_check[lower(chosen_eids[i])])
      /\ \A c \in new_gmsts :
           c[1] = chosen_eids[i] => c[2] = chosen_values[i]

====
